---- MODULE Spec2Model ----
(***************************************************************************)
(* The NeoWs archive crawler of archive.py: the retrying HTTP fetcher,     *)
(* the page walk of run(), the record simplification and the sqlite store  *)
(* with INSERT OR IGNORE.                                                  *)
(*                                                                         *)
(* JSON objects are functions from a finite set of key strings to values;  *)
(* a key that is absent from the domain is a key the dict does not have.   *)
(* A value of another Python type where the code expects a dict is a       *)
(* function with the single key "py", the name of its type; an exception   *)
(* in place of a result is a function with the single key "py_exc".        *)
(* Times are in milliseconds.                                              *)
(***************************************************************************)
EXTENDS Integers, Sequences, FiniteSets, TLC

VARIABLES
    db,                 \* rows of table asteroids in the file: [id, data, inserted_at]
    txn,                \* rows written by the open transaction, not yet committed
    conn_open,          \* the sqlite connection of the current run is open
    total_changes,      \* conn.total_changes of the current connection
    now,                \* the clock read by datetime.utcnow(): it never goes back
    pc,                 \* position of the caller: idle, first, browse, records, lookup, call
    page,               \* run(): page
    total_pages,        \* run(): total_pages (meaningful after the first fetch)
    objects,            \* run(): objects of the page being processed
    idx,                \* run(): position of the for loop in objects (1-based)
    inserted_this_page, \* run(): inserted_this_page
    fstatus,            \* _request_json_with_retries: none, running, returned, raised, runtime_error
    freq,               \* its url and params
    attempts,           \* its attempts argument
    attempt,            \* its loop variable
    fres,               \* its return value
    last_exc,           \* its last_exc: the attempt whose exception it holds, 0 for None
    raised,             \* the exception it raised: the attempt that threw it, 0 for none
    nreq,               \* history: HTTP requests issued by the current call
    sleeps,             \* history: the time.sleep calls of the current call, in order
    runs,               \* history: number of run() calls started
    outcome,            \* history: how the last run() ended
    tp_known,           \* history: the first response of the run carried total_pages
    nfailed,            \* history: lookups that failed on the current page
    ncalls,             \* history: _insert_asteroid calls on the current page
    db_at_start,        \* history: db when the current run() started
    ins_log,            \* history: the latest _insert_asteroid calls, two at most; run()
                        \* keeps only the call of the step just taken
    world,              \* the provider: its fixed answers, when it has fixed ones
    norm,               \* the latest direct call of _simplify_object_lookup
    nw                  \* the latest call of a public helper of neoWs.py

vars == <<db, conn_open, total_changes, now, pc, page, total_pages, objects, idx,
          inserted_this_page, fstatus, freq, attempts, attempt, fres, last_exc, raised,
          nreq, sleeps,
          runs, outcome, tp_known, nfailed, ncalls, db_at_start, ins_log, txn, world, norm, nw>>

store_vars == <<db, txn, conn_open, total_changes, now>>
run_vars == <<page, total_pages, objects, idx, inserted_this_page>>
fetch_vars == <<fstatus, freq, attempts, attempt, fres, last_exc, raised, nreq, sleeps>>
hist_vars == <<runs, outcome, tp_known, nfailed, ncalls, db_at_start, world, norm, nw>>

----------------------------------------------------------------------------
(* Program constants (archive.py:16-25). *)

PAGE_SIZE == 20
RETRIES == 3
BACKOFF_FACTOR == 1000
RATE_LIMIT_SLEEP == 120
api_browse_url == "https://api.nasa.gov/neo/rest/v1/neo/browse"
api_lookup_url_prefix == "https://api.nasa.gov/neo/rest/v1/neo/"
default_api_key == "DEMO_KEY"

(* Bounds of the model. *)

MaxRuns == 2        \* run() calls in one behaviour
MaxPage == 2        \* pages 0..MaxPage can be requested
MaxObjs == 2        \* records on one browse page
MaxClock == 2       \* the clock stops advancing here
MaxAttempts == 4    \* attempts argument of a direct fetcher call
MaxFrags == 2       \* approach entries passed to a direct call of the normaliser
MaxFeed == 2        \* objects under the first date of a feed

----------------------------------------------------------------------------
(* Python dict helpers. *)

Has(d, k) == k \in DOMAIN d

Pop(d, k) == [x \in DOMAIN d \ {k} |-> d[x]]

Put(d, k, v) == [x \in DOMAIN d \cup {k} |-> IF x = k THEN v ELSE d[x]]

EmptyDict == [x \in {} |-> 0]

\* d.get(k) for a string-valued key; "" stands for every falsy result (None, "")
GetStr(d, k) == IF Has(d, k) THEN d[k] ELSE ""

\* d.get(k, {}) / d.get(k) or {} for a dict-valued key
GetDict(d, k) == IF Has(d, k) THEN d[k] ELSE EmptyDict

\* d.get(k, []) / d.get(k) or [] for a list-valued key
GetList(d, k) == IF Has(d, k) THEN d[k] ELSE <<>>

\* None and a string, standing where a dict is expected
PyNone == [py |-> "NoneType"]
PyStr == [py |-> "str"]

\* None standing where a list is expected ("close_approach_data": null)
NoneAsList == <<[py |-> "NoneType", in_place_of |-> "list"]>>

\* isinstance(v, dict)
isinstance_dict(v) == ~Has(v, "py")

\* v is None, for a value that is a dict or stands where one is expected
is_none(v) == Has(v, "py") /\ v["py"] = "NoneType"

\* v or [] for a list or None
or_empty_list(v) == IF v = NoneAsList THEN <<>> ELSE v

\* 'NoneType' / 'str' object has no attribute 'get'
AttributeError == [py_exc |-> "AttributeError"]

\* the evaluation ended in an exception instead of a value
raises(v) == Has(v, "py_exc")

----------------------------------------------------------------------------
(* The provider's data: approach entries, summary records of the browse     *)
(* endpoint and detail records of the lookup endpoint.                      *)

Ids == {"a", "b"}

Ap1 == [close_approach_date |-> "2025-10-01", orbiting_body |-> "Earth",
        miss_distance |-> [astronomical |-> "0.0007", lunar |-> "0.26",
                           kilometers |-> "100", miles |-> "62"],
        relative_velocity |-> [kilometers_per_second |-> "5",
                               kilometers_per_hour |-> "18000",
                               miles_per_hour |-> "11185"]]

ApHist == [close_approach_date |-> "1990-01-01", orbiting_body |-> "Venus",
           miss_distance |-> [kilometers |-> "900", miles |-> "559"],
           relative_velocity |-> [kilometers_per_second |-> "9"]]

SumA == [id |-> "a", neo_reference_id |-> "a", close_approach_data |-> <<Ap1>>]
SumB == [id |-> "b", neo_reference_id |-> "b"]
SumNoId == [name |-> "unnamed", neo_reference_id |-> ""]

Summaries == {SumA, SumB, SumNoId}

DetA1 == [id |-> "a", neo_reference_id |-> "a", name |-> "A (first)",
          links |-> [self |-> "https://api.nasa.gov/neo/rest/v1/neo/a"],
          estimated_diameter |-> [kilometers |-> [min |-> 1, max |-> 2],
                                  miles |-> [min |-> 0, max |-> 1]],
          close_approach_data |-> <<ApHist>>]

DetA2 == [id |-> "a", neo_reference_id |-> "a", name |-> "A (revised)",
          links |-> [self |-> "https://api.nasa.gov/neo/rest/v1/neo/a"],
          estimated_diameter |-> [kilometers |-> [min |-> 1, max |-> 3],
                                  miles |-> [min |-> 0, max |-> 2]],
          close_approach_data |-> <<ApHist>>]

DetRefOnly == [neo_reference_id |-> "b", name |-> "B (reference id only)",
               estimated_diameter |-> [miles |-> [min |-> 0, max |-> 1]],
               close_approach_data |-> <<>>]

DetNoId == [name |-> "anonymous", links |-> [self |-> "https://api.nasa.gov/neo/rest/v1/neo/0"]]

\* "estimated_diameter": null
DetNullDiameter == [id |-> "b", neo_reference_id |-> "b", name |-> "B (diameter unknown)",
                    estimated_diameter |-> PyNone]

\* a detail record whose id is not the reference id it was looked up by
DetCrossed == [id |-> "a", neo_reference_id |-> "b", name |-> "B (under the id of A)"]

\* detail records the lookup endpoint can answer a request for id with
DetailsFor(id) ==
    IF id = "a" THEN {DetA1, DetA2} ELSE {DetRefOnly, DetNoId, DetNullDiameter}

Details == UNION {DetailsFor(i) : i \in Ids}

RECURSIVE SeqsUpTo(_, _)
SeqsUpTo(S, n) ==
    IF n = 0 THEN {<<>>}
    ELSE LET shorter == SeqsUpTo(S, n - 1)
         IN shorter \cup {Append(s, x) : s \in {t \in shorter : Len(t) = n - 1}, x \in S}

\* the near_earth_objects list of a browse response
PageLists == SeqsUpTo(Summaries, MaxObjs)

\* the page block of a browse response: with total_pages, without it, or absent
PageInfos == {[size |-> PAGE_SIZE, total_pages |-> t] : t \in 0..MaxPage}
                 \cup {[size |-> PAGE_SIZE]}

BrowseBodies == {[page |-> pi, near_earth_objects |-> l] : pi \in PageInfos, l \in PageLists}
                    \cup {[near_earth_objects |-> l] : l \in PageLists}

\* the browse responses that carry no page block
BareBodies == {[near_earth_objects |-> l] : l \in PageLists}

(* Inputs of the normaliser called directly: approach entries of the page,  *)
(* the shapes of estimated_diameter, detail records.                        *)

ApExample == [miss_distance |-> [kilometers |-> "100", lunar |-> "0.26", miles |-> "62"]]

ApNext == [close_approach_date |-> "2025-10-02", orbiting_body |-> "Earth",
           miss_distance |-> [kilometers |-> "7"],
           relative_velocity |-> [kilometers_per_second |-> "3", miles_per_hour |-> "6710"]]

\* an entry whose miss_distance and relative_velocity are no dicts
ApOdd == [close_approach_date |-> "2025-10-03", miss_distance |-> PyStr,
          relative_velocity |-> PyNone]

\* the entries of a close_approach_data list; PyStr: an entry that is no dict
NormApproaches == {Ap1, ApExample, ApNext, ApOdd, PyStr}

\* approaches_from_browse: a list, or None
FragmentLists == SeqsUpTo(NormApproaches, MaxFrags) \cup {NoneAsList}

\* estimated_diameter: with and without kilometers, kilometers null, empty, null, a string
DiameterBlocks ==
    {[kilometers |-> [min |-> 1, max |-> 2], miles |-> [min |-> 0, max |-> 1],
      feet |-> [min |-> 3280, max |-> 6561]],
     [miles |-> [min |-> 0, max |-> 1]],
     [kilometers |-> PyNone, miles |-> [min |-> 0, max |-> 1]],
     EmptyDict, PyNone, PyStr}

\* obj_lookup: the detail records of the provider and DetA1 with every shape of
\* estimated_diameter
NormDetails == Details \cup {Put(DetA1, "estimated_diameter", ed) : ed \in DiameterBlocks}

----------------------------------------------------------------------------
(* Record simplification (archive.py:76-114). *)

\* a sanitiser that forgets the miles of the distance
sanitise_approach_keeps_miles(approach) ==
    IF ~isinstance_dict(approach) THEN AttributeError
    ELSE
    LET a1 == IF Has(approach, "miss_distance") /\ isinstance_dict(approach["miss_distance"])
              THEN Put(approach, "miss_distance", Pop(approach["miss_distance"], "lunar"))
              ELSE approach
    IN  IF Has(a1, "relative_velocity") /\ isinstance_dict(a1["relative_velocity"])
        THEN Put(a1, "relative_velocity",
                 Pop(Pop(a1["relative_velocity"], "miles_per_hour"), "miles_per_hr"))
        ELSE a1

\* a sanitiser that keeps the kilometers and the km-per-second value and no other
sanitise_approach_km_only(approach) ==
    IF ~isinstance_dict(approach) THEN AttributeError
    ELSE
    LET only(d, k) == [x \in DOMAIN d \cap {k} |-> d[x]]
        a1 == IF Has(approach, "miss_distance") /\ isinstance_dict(approach["miss_distance"])
              THEN Put(approach, "miss_distance", only(approach["miss_distance"], "kilometers"))
              ELSE approach
    IN  IF Has(a1, "relative_velocity") /\ isinstance_dict(a1["relative_velocity"])
        THEN Put(a1, "relative_velocity",
                 only(a1["relative_velocity"], "kilometers_per_second"))
        ELSE a1

\* _sanitise_approach(approach): the entry as the call leaves it (it is changed
\* in place), or the exception of approach.get on an entry that is no dict
sanitise_approach(approach) ==
    IF ~isinstance_dict(approach) THEN AttributeError
    ELSE
    LET a1 == IF Has(approach, "miss_distance") /\ isinstance_dict(approach["miss_distance"])
              THEN Put(approach, "miss_distance",
                       Pop(Pop(approach["miss_distance"], "lunar"), "miles"))
              ELSE approach
    IN  IF Has(a1, "relative_velocity") /\ isinstance_dict(a1["relative_velocity"])
        THEN Put(a1, "relative_velocity",
                 Pop(Pop(a1["relative_velocity"], "miles_per_hour"), "miles_per_hr"))
        ELSE a1

\* a restriction that puts the kilometers block in the place of estimated_diameter
simplify_estimated_diameter_unwraps(obj) ==
    LET ed == IF Has(obj, "estimated_diameter") THEN obj["estimated_diameter"] ELSE EmptyDict
    IN  IF ~isinstance_dict(ed) THEN AttributeError
        ELSE IF Has(ed, "kilometers") /\ ~is_none(ed["kilometers"])
        THEN Put(obj, "estimated_diameter", ed["kilometers"])
        ELSE Pop(obj, "estimated_diameter")

\* a restriction that leaves an empty estimated_diameter behind
simplify_estimated_diameter_empty(obj) ==
    LET ed == IF Has(obj, "estimated_diameter") THEN obj["estimated_diameter"] ELSE EmptyDict
    IN  IF ~isinstance_dict(ed) THEN AttributeError
        ELSE IF Has(ed, "kilometers") /\ ~is_none(ed["kilometers"])
        THEN Put(obj, "estimated_diameter", [kilometers |-> ed["kilometers"]])
        ELSE Put(obj, "estimated_diameter", EmptyDict)

\* _simplify_estimated_diameter(obj): obj as the call leaves it, or the exception
\* of .get on an estimated_diameter that is no dict
simplify_estimated_diameter(obj) ==
    LET ed == IF Has(obj, "estimated_diameter") THEN obj["estimated_diameter"] ELSE EmptyDict
    IN  IF ~isinstance_dict(ed) THEN AttributeError
        ELSE IF Has(ed, "kilometers") /\ ~is_none(ed["kilometers"])
        THEN Put(obj, "estimated_diameter", [kilometers |-> ed["kilometers"]])
        ELSE Pop(obj, "estimated_diameter")

\* a simplification that keeps the approaches of the lookup when the page has none
simplify_object_lookup_keeps_history(obj_lookup, approaches_from_browse) ==
    LET list == IF or_empty_list(approaches_from_browse) = <<>>
                THEN GetList(obj_lookup, "close_approach_data")
                ELSE approaches_from_browse
        sanitised == [i \in 1..Len(list) |-> sanitise_approach(list[i])]
    IN  IF \E i \in 1..Len(list) : raises(sanitised[i]) THEN AttributeError
        ELSE LET simplified == simplify_estimated_diameter(
                                   Put(obj_lookup, "close_approach_data", sanitised))
             IN  IF raises(simplified) THEN simplified ELSE Pop(simplified, "links")

\* a simplification that leaves the links of the detail record in place
simplify_object_lookup_keeps_links(obj_lookup, approaches_from_browse) ==
    LET list == or_empty_list(approaches_from_browse)
        sanitised == [i \in 1..Len(list) |-> sanitise_approach(list[i])]
    IN  IF \E i \in 1..Len(list) : raises(sanitised[i]) THEN AttributeError
        ELSE simplify_estimated_diameter(Put(obj_lookup, "close_approach_data", sanitised))

\* _simplify_object_lookup(obj_lookup, approaches_from_browse): the value
\* returned, or the exception that ends the call
simplify_object_lookup(obj_lookup, approaches_from_browse) ==
    LET list == or_empty_list(approaches_from_browse)
        sanitised == [i \in 1..Len(list) |-> sanitise_approach(list[i])]
    IN  IF \E i \in 1..Len(list) : raises(sanitised[i]) THEN AttributeError
        ELSE LET simplified == simplify_estimated_diameter(
                                   Put(obj_lookup, "close_approach_data", sanitised))
             IN  IF raises(simplified) THEN simplified ELSE Pop(simplified, "links")

\* the list passed as approaches_from_browse after the call: obj_copy holds the
\* list itself, not a copy, so the loop sanitises the caller's entries, one
\* after the other until an entry raises
approaches_after_simplify(approaches_from_browse) ==
    LET list == or_empty_list(approaches_from_browse)
    IN  IF list = <<>> THEN approaches_from_browse
        ELSE [i \in 1..Len(list) |->
                 IF \A j \in 1..i : isinstance_dict(list[j])
                 THEN sanitise_approach(list[i]) ELSE list[i]]

\* obj_lookup after the call: the call works on a deep copy of it
obj_lookup_after_simplify(obj_lookup) == obj_lookup

----------------------------------------------------------------------------
(* The store (archive.py:134-165). *)

\* json.dumps(obj, ensure_ascii=False): the text of obj
json_dumps(obj) == <<"json", obj>>

\* aid = obj.get("id") or obj.get("neo_reference_id")
AidOf(obj) ==
    IF GetStr(obj, "id") # "" THEN GetStr(obj, "id") ELSE GetStr(obj, "neo_reference_id")

\* datetime.utcnow().isoformat() + "Z"
utcnow_text(t) == <<"utc", t>>

\* a plain INSERT into a table without the primary key
insert_always(rows, row) == rows \cup {row}

\* INSERT OR REPLACE
insert_or_replace(rows, row) == {r \in rows : r.id # row.id} \cup {row}

\* INSERT OR IGNORE INTO asteroids(id, data, inserted_at) VALUES (...)
insert_or_ignore(rows, row) ==
    IF \E r \in rows : r.id = row.id THEN rows ELSE rows \cup {row}

\* an insert without the early return: a record with no identifier gets a row
insert_asteroid_no_guard(rows, tc, obj, t) ==
    LET rows2 == insert_or_ignore(rows, [id |-> AidOf(obj), data |-> json_dumps(obj),
                                         inserted_at |-> utcnow_text(t)])
        after == tc + Cardinality(rows2 \ rows)
    IN  [rows |-> rows2, tc |-> after, ret |-> IF after - tc > 0 THEN 1 ELSE 0]

\* an insert that returns 1 for every record with an identifier, new or not
insert_asteroid_counts_calls(rows, tc, obj, t) ==
    LET aid == AidOf(obj) IN
    IF aid = ""
    THEN [rows |-> rows, tc |-> tc, ret |-> 0]
    ELSE LET rows2 == insert_or_ignore(rows, [id |-> aid, data |-> json_dumps(obj),
                                              inserted_at |-> utcnow_text(t)])
         IN  [rows |-> rows2, tc |-> tc + Cardinality(rows2 \ rows), ret |-> 1]

\* _insert_asteroid(conn, obj) on rows at time t with conn.total_changes = tc:
\* the rows and total_changes afterwards, and the value returned
insert_asteroid(rows, tc, obj, t) ==
    LET aid == AidOf(obj) IN
    IF aid = ""
    THEN [rows |-> rows, tc |-> tc, ret |-> 0]
    ELSE LET before == tc
             rows2 == insert_or_ignore(rows, [id |-> aid, data |-> json_dumps(obj),
                                              inserted_at |-> utcnow_text(t)])
             after == tc + Cardinality(rows2 \ rows)
         IN  [rows |-> rows2, tc |-> after, ret |-> IF after - before > 0 THEN 1 ELSE 0]

----------------------------------------------------------------------------
(* The fetcher (archive.py:28-73).  One step is one pass of the for loop:   *)
(* an HTTP GET that succeeds or throws.  The exception of attempt k is      *)
(* identified by k.                                                         *)

NoBody == [none |-> TRUE]

\* _neo_browse(page): url and params
BrowseReq(p) == [url |-> api_browse_url,
                 params |-> [page |-> p, size |-> PAGE_SIZE, api_key |-> default_api_key]]

\* _neo_lookup(asteroid_id): url and params
LookupReq(id) == [url |-> api_lookup_url_prefix \o id,
                  params |-> [api_key |-> default_api_key]]

\* no call of the normaliser yet
NoCall == [called |-> FALSE]

\* no helper of neoWs.py has been called
NwIdle == [op |-> "none"]

\* a provider that is free to answer every request with any body
AnyWorld == [fixed |-> FALSE]

\* a provider that is free in its answers, whose browse responses carry no
\* page block and whose detail records can have an id that differs from the
\* reference id of the request
CrossedWorld == [fixed |-> FALSE, crossed |-> TRUE]

\* the detail records such a provider has for id besides DetailsFor(id)
CrossedFor(w, id) == IF Has(w, "crossed") /\ id = "b" THEN {DetCrossed} ELSE {}

\* the detail record a provider with fixed answers has for id
WorldDetail(id) == IF id = "a" THEN DetA1 ELSE DetRefOnly

\* the body a provider with fixed answers has for page p: the records of the
\* page, and total_pages in the page block when the provider reports it
WorldPage(w, p) ==
    [page |-> IF w.tp >= 0 THEN [size |-> PAGE_SIZE, total_pages |-> w.tp]
              ELSE [size |-> PAGE_SIZE],
     near_earth_objects |-> w.pages[p]]

\* the bodies the provider can answer a request with: any body of the
\* endpoint, or the one body of a provider with fixed answers
Responses(req) ==
    IF world.fixed
    THEN IF req.url = api_browse_url THEN {WorldPage(world, req.params.page)}
         ELSE {WorldDetail(i) : i \in {j \in Ids : req = LookupReq(j)}}
    ELSE IF req.url = api_browse_url
         THEN IF Has(world, "crossed") THEN BareBodies ELSE BrowseBodies
         ELSE UNION {IF req = LookupReq(i) THEN DetailsFor(i) \cup CrossedFor(world, i) ELSE {}
                        : i \in Ids}

\* backoff = BACKOFF_FACTOR * attempt
Backoff(k) == BACKOFF_FACTOR * k

\* a loop that gives up one attempt late
GiveUpLate(k, n) == k > n

\* if attempt >= attempts: raise
GiveUp(k, n) == k >= n

\* entry of _request_json_with_retries(url, params, attempts): with attempts < 1
\* the loop body never runs and the function ends in its RuntimeError
StartFetch(req, n) ==
    /\ fstatus' = IF n >= 1 THEN "running" ELSE "runtime_error"
    /\ freq' = req
    /\ attempts' = n
    /\ attempt' = 1
    /\ fres' = NoBody
    /\ last_exc' = 0
    /\ raised' = 0
    /\ nreq' = 0
    /\ sleeps' = <<>>

\* the caller has taken the result of the call
EndFetch ==
    /\ fstatus' = "none"
    /\ freq' = NoBody
    /\ attempts' = 0
    /\ attempt' = 0
    /\ fres' = NoBody
    /\ last_exc' = 0
    /\ raised' = 0
    /\ nreq' = 0
    /\ sleeps' = <<>>

\* the try branch is taken: the bodies _request_json can return on this attempt
Returned == IF fstatus = "running" THEN Responses(freq) ELSE {}

\* every attempt of the call in progress throws: the loop backs off after each
\* attempt but the last, whose exception the call raises
fetch_raises ==
    /\ fstatus = "running"
    /\ fstatus' = "raised"
    /\ attempt' = attempts
    /\ nreq' = attempts
    /\ last_exc' = attempts
    /\ raised' = attempts
    /\ sleeps' = [k \in 1..(attempts - 1) |-> Backoff(k)]
    /\ UNCHANGED <<freq, attempts, fres>>
    /\ UNCHANGED <<store_vars, run_vars, hist_vars, pc, ins_log>>

\* a try branch that returns without the rate-limit sleep
http_ok_no_sleep ==
    /\ \E body \in Returned : fres' = body
    /\ nreq' = nreq + 1
    /\ fstatus' = "returned"
    /\ UNCHANGED <<freq, attempts, attempt, last_exc, raised, sleeps>>
    /\ UNCHANGED <<store_vars, run_vars, hist_vars, pc, ins_log>>

\* the try branch, seen by a direct caller: sleep RATE_LIMIT_SLEEP; return res
http_ok ==
    /\ \E body \in Returned : fres' = body
    /\ nreq' = nreq + 1
    /\ sleeps' = Append(sleeps, RATE_LIMIT_SLEEP)
    /\ fstatus' = "returned"
    /\ UNCHANGED <<freq, attempts, attempt, last_exc, raised>>
    /\ UNCHANGED <<store_vars, run_vars, hist_vars, pc, ins_log>>

\* the except branch: _request_json threw; give up or back off and loop
http_fail ==
    /\ fstatus = "running"
    /\ nreq' = nreq + 1
    /\ last_exc' = attempt
    /\ IF GiveUp(attempt, attempts)
       THEN /\ fstatus' = "raised"
            /\ raised' = attempt
            /\ UNCHANGED <<attempt, sleeps>>
       ELSE /\ sleeps' = Append(sleeps, Backoff(attempt))
            /\ attempt' = attempt + 1
            /\ UNCHANGED <<fstatus, raised>>
    /\ UNCHANGED <<freq, attempts, fres>>
    /\ UNCHANGED <<store_vars, run_vars, hist_vars, pc, ins_log>>

----------------------------------------------------------------------------
(* run(start_page) (archive.py:168-238), cut at its calls of the fetcher.  *)
(* To run() a call of the fetcher has two ends: it raises, every attempt    *)
(* having thrown (fetch_raises), or it returns the body of the attempt that *)
(* succeeded, which run() takes in the same step.  The single attempts,     *)
(* backoffs and sleeps of a call are the steps of FetchSpec below; they     *)
(* change nothing run() reads.                                              *)

\* neo_id = obj.get("neo_reference_id") or obj.get("id")
NeoIdOf(obj) ==
    IF GetStr(obj, "neo_reference_id") # "" THEN GetStr(obj, "neo_reference_id")
    ELSE GetStr(obj, "id")

\* page_info.get("total_pages") is not None, page_info being first.get("page") or {}
HasTotalPages(first) == Has(GetDict(first, "page"), "total_pages")

\* total_pages = page_info.get("total_pages"), replaced by page when it is None
FirstTotalPages(first, p) ==
    LET page_info == GetDict(first, "page")
    IN  IF Has(page_info, "total_pages") THEN page_info["total_pages"] ELSE p

\* if total_pages and isinstance(total_pages, int) and page >= total_pages: break
StopCondition(tp, p) == tp # 0 /\ p >= tp

\* an end of run() that leaves the connection open
CloseAndEnd_leaves_open(how) ==
    /\ pc' = "idle"
    /\ outcome' = how
    /\ EndFetch
    /\ ins_log' = <<>>
    /\ UNCHANGED <<store_vars, run_vars, runs, tp_known, nfailed, ncalls,
                   db_at_start, world, norm, nw>>

\* conn.close() and the end of run()
CloseAndEnd(how) ==
    /\ conn_open' = FALSE
    /\ pc' = "idle"
    /\ outcome' = how
    /\ EndFetch
    /\ ins_log' = <<>>
    /\ UNCHANGED <<db, txn, total_changes, now, run_vars, runs, tp_known, nfailed, ncalls,
                   db_at_start, world, norm, nw>>

\* a start that creates the table anew, dropping the rows of earlier runs
run_start_drops_table ==
    /\ pc = "idle"
    /\ runs < MaxRuns
    /\ \E start_page \in 0..MaxPage :
         /\ page' = start_page
         /\ StartFetch(BrowseReq(start_page), RETRIES)
    /\ db' = {}
    /\ conn_open' = TRUE
    /\ total_changes' = 0
    /\ total_pages' = 0
    /\ objects' = <<>>
    /\ idx' = 1
    /\ inserted_this_page' = 0
    /\ pc' = "first"
    /\ runs' = runs + 1
    /\ outcome' = "running"
    /\ tp_known' = FALSE
    /\ nfailed' = 0
    /\ ncalls' = 0
    /\ db_at_start' = db
    /\ now' = now + 1
    /\ ins_log' = <<>>
    /\ UNCHANGED <<txn, world, norm, nw>>

\* connect, _create_db, and the first _neo_browse(page); the clock has advanced
\* since the run before (it is read in units that one run does not exceed)
run_start ==
    /\ pc = "idle"
    /\ runs < MaxRuns
    /\ \E start_page \in 0..MaxPage :
         /\ page' = start_page
         /\ StartFetch(BrowseReq(start_page), RETRIES)
    /\ conn_open' = TRUE
    /\ total_changes' = 0
    /\ total_pages' = 0
    /\ objects' = <<>>
    /\ idx' = 1
    /\ inserted_this_page' = 0
    /\ pc' = "first"
    /\ runs' = runs + 1
    /\ outcome' = "running"
    /\ tp_known' = FALSE
    /\ nfailed' = 0
    /\ ncalls' = 0
    /\ db_at_start' = db
    /\ now' = now + 1
    /\ ins_log' = <<>>
    /\ UNCHANGED <<db, txn, world, norm, nw>>

\* a first failure that forgets the return and enters the loop
first_failed_no_return ==
    /\ pc = "first"
    /\ fstatus = "raised"
    /\ StartFetch(BrowseReq(page), RETRIES)
    /\ pc' = "browse"
    /\ UNCHANGED <<store_vars, run_vars, hist_vars, ins_log>>

\* the first fetch threw: print, conn.close(), return
first_failed ==
    /\ pc = "first"
    /\ fstatus = "raised"
    /\ CloseAndEnd("first_failed")

\* a first fetch whose records are handed to the loop, the page not being
\* fetched again
first_fetched_reuses_first ==
    /\ pc = "first"
    /\ \E first \in {r \in Returned : GetList(r, "near_earth_objects") # <<>>} :
         /\ tp_known' = HasTotalPages(first)
         /\ total_pages' = FirstTotalPages(first, page)
         /\ objects' = GetList(first, "near_earth_objects")
    /\ idx' = 1
    /\ inserted_this_page' = 0
    /\ nfailed' = 0
    /\ ncalls' = 0
    /\ pc' = "records"
    /\ EndFetch
    /\ UNCHANGED <<store_vars, page, runs, outcome, db_at_start, ins_log, world, norm, nw>>

\* the first fetch returned: learn total_pages, enter the loop, fetch the page again
first_fetched ==
    /\ pc = "first"
    /\ \E known \in {HasTotalPages(first) : first \in Returned} :
         /\ tp_known' = known
         /\ total_pages' \in {FirstTotalPages(first, page) :
                                 first \in {r \in Returned : HasTotalPages(r) = known}}
    /\ StartFetch(BrowseReq(page), RETRIES)
    /\ pc' = "browse"
    /\ UNCHANGED <<store_vars, page, objects, idx, inserted_this_page, runs, outcome,
                   nfailed, ncalls, db_at_start, ins_log, world, norm, nw>>

\* a page failure that skips the page and goes on with the next one
browse_failed_skip ==
    /\ pc = "browse"
    /\ fstatus = "raised"
    /\ page < MaxPage
    /\ page' = page + 1
    /\ StartFetch(BrowseReq(page + 1), RETRIES)
    /\ ins_log' = <<>>
    /\ UNCHANGED <<store_vars, total_pages, objects, idx, inserted_this_page, hist_vars, pc>>

\* the fetch of the loop threw: print, break
browse_failed ==
    /\ pc = "browse"
    /\ fstatus = "raised"
    /\ CloseAndEnd("page_failed")

\* an empty page that is passed over: the crawl goes on with the next page
browse_empty_skip ==
    /\ pc = "browse"
    /\ <<>> \in {GetList(resp, "near_earth_objects") : resp \in Returned}
    /\ page < MaxPage
    /\ page' = page + 1
    /\ StartFetch(BrowseReq(page + 1), RETRIES)
    /\ ins_log' = <<>>
    /\ UNCHANGED <<store_vars, total_pages, objects, idx, inserted_this_page, hist_vars, pc>>

\* the page has no objects: print, break
browse_empty ==
    /\ pc = "browse"
    /\ <<>> \in {GetList(resp, "near_earth_objects") : resp \in Returned}
    /\ CloseAndEnd("no_objects")

\* a loop that takes total_pages anew from every page that carries one
browse_fetched_rereads_total ==
    /\ pc = "browse"
    /\ \E resp \in {r \in Returned : GetList(r, "near_earth_objects") # <<>>} :
         /\ objects' = GetList(resp, "near_earth_objects")
         /\ total_pages' = FirstTotalPages(resp, total_pages)
    /\ idx' = 1
    /\ inserted_this_page' = 0
    /\ nfailed' = 0
    /\ ncalls' = 0
    /\ pc' = "records"
    /\ EndFetch
    /\ UNCHANGED <<store_vars, page, runs, outcome, tp_known, db_at_start,
                   ins_log, world, norm, nw>>

\* the page has objects: start the for loop
browse_fetched ==
    /\ pc = "browse"
    /\ objects' \in {GetList(resp, "near_earth_objects") : resp \in Returned} \ {<<>>}
    /\ idx' = 1
    /\ inserted_this_page' = 0
    /\ nfailed' = 0
    /\ ncalls' = 0
    /\ pc' = "records"
    /\ EndFetch
    /\ UNCHANGED <<store_vars, page, total_pages, runs, outcome, tp_known, db_at_start,
                   ins_log, world, norm, nw>>

\* a loop that gives up the page at a record without identifier
record_no_id_break ==
    /\ pc = "records"
    /\ idx <= Len(objects)
    /\ NeoIdOf(objects[idx]) = ""
    /\ idx' = Len(objects) + 1
    /\ ins_log' = <<>>
    /\ UNCHANGED <<store_vars, page, total_pages, objects, inserted_this_page,
                   fetch_vars, hist_vars, pc>>

\* if not neo_id: continue
record_no_id ==
    /\ pc = "records"
    /\ idx <= Len(objects)
    /\ NeoIdOf(objects[idx]) = ""
    /\ idx' = idx + 1
    /\ ins_log' = <<>>
    /\ UNCHANGED <<store_vars, page, total_pages, objects, inserted_this_page,
                   fetch_vars, hist_vars, pc>>

\* lookup = _neo_lookup(neo_id)
record_lookup ==
    /\ pc = "records"
    /\ idx <= Len(objects)
    /\ NeoIdOf(objects[idx]) # ""
    /\ StartFetch(LookupReq(NeoIdOf(objects[idx])), RETRIES)
    /\ pc' = "lookup"
    /\ ins_log' = <<>>
    /\ UNCHANGED <<store_vars, run_vars, hist_vars>>

\* a lookup failure that ends the for loop of the page
lookup_failed_break ==
    /\ pc = "lookup"
    /\ fstatus = "raised"
    /\ idx' = Len(objects) + 1
    /\ nfailed' = nfailed + 1
    /\ pc' = "records"
    /\ EndFetch
    /\ UNCHANGED <<store_vars, page, total_pages, objects, inserted_this_page,
                   runs, outcome, tp_known, ncalls, db_at_start, ins_log, world, norm, nw>>

\* the lookup threw: print, continue
lookup_failed ==
    /\ pc = "lookup"
    /\ fstatus = "raised"
    /\ idx' = idx + 1
    /\ nfailed' = nfailed + 1
    /\ pc' = "records"
    /\ EndFetch
    /\ UNCHANGED <<store_vars, page, total_pages, objects, inserted_this_page,
                   runs, outcome, tp_known, ncalls, db_at_start, ins_log, world, norm, nw>>

\* objects after _simplify_object_lookup has worked on the approaches of
\* objects[i]: the list it sanitises in place is the list of the record
objects_after_simplify(objs, i) ==
    IF Has(objs[i], "close_approach_data")
    THEN [objs EXCEPT ![i] = Put(@, "close_approach_data",
                                 approaches_after_simplify(@["close_approach_data"]))]
    ELSE objs

\* the lookup returned and _simplify_object_lookup raised: nothing in run()
\* catches the exception, which ends run() short of conn.close()
simplify_raised ==
    /\ pc = "lookup"
    /\ \E lookup \in Returned :
         raises(simplify_object_lookup(lookup, GetList(objects[idx], "close_approach_data")))
    /\ objects' = objects_after_simplify(objects, idx)
    /\ pc' = "idle"
    /\ outcome' = "exception"
    /\ EndFetch
    /\ ins_log' = <<>>
    /\ UNCHANGED <<store_vars, page, total_pages, idx, inserted_this_page, runs, tp_known,
                   nfailed, ncalls, db_at_start, world, norm, nw>>

\* an insert under the identifier the lookup was issued with
lookup_fetched_keys_by_summary ==
    /\ pc = "lookup"
    /\ \E lookup \in Returned :
         /\ LET approaches_from_browse == GetList(objects[idx], "close_approach_data")
                simplified == simplify_object_lookup(lookup, approaches_from_browse)
                keyed == IF raises(simplified) THEN simplified
                         ELSE Put(simplified, "id", NeoIdOf(objects[idx]))
                ins == insert_asteroid(db, total_changes, keyed, now)
            IN  /\ ~raises(simplified)
                /\ db' = ins.rows
                /\ total_changes' = ins.tc
                /\ inserted_this_page' = inserted_this_page + ins.ret
                /\ ins_log' = <<[obj |-> simplified, ret |-> ins.ret, before |-> db]>>
    /\ objects' = objects_after_simplify(objects, idx)
    /\ idx' = idx + 1
    /\ ncalls' = ncalls + 1
    /\ pc' = "records"
    /\ EndFetch
    /\ UNCHANGED <<txn, conn_open, now, page, total_pages, runs, outcome, tp_known,
                   nfailed, db_at_start, world, norm, nw>>

\* the lookup returned: simplify, insert, count
lookup_fetched ==
    /\ pc = "lookup"
    /\ \E lookup \in Returned :
         /\ LET approaches_from_browse == GetList(objects[idx], "close_approach_data")
                simplified == simplify_object_lookup(lookup, approaches_from_browse)
                ins == insert_asteroid(db, total_changes, simplified, now)
            IN  /\ ~raises(simplified)
                /\ db' = ins.rows
                /\ total_changes' = ins.tc
                /\ inserted_this_page' = inserted_this_page + ins.ret
                /\ ins_log' = <<[obj |-> simplified, ret |-> ins.ret, before |-> db]>>
    /\ objects' = objects_after_simplify(objects, idx)
    /\ idx' = idx + 1
    /\ ncalls' = ncalls + 1
    /\ pc' = "records"
    /\ EndFetch
    /\ UNCHANGED <<txn, conn_open, now, page, total_pages, runs, outcome, tp_known,
                   nfailed, db_at_start, world, norm, nw>>

\* the for loop is over and the stop condition holds: break
page_stop ==
    /\ pc = "records"
    /\ idx > Len(objects)
    /\ StopCondition(total_pages, page)
    /\ CloseAndEnd("total_reached")

\* a loop that passes over the page after the one it has finished
page_advance_skips ==
    /\ pc = "records"
    /\ idx > Len(objects)
    /\ ~StopCondition(total_pages, page)
    /\ page + 1 < MaxPage
    /\ page' = page + 2
    /\ StartFetch(BrowseReq(page + 2), RETRIES)
    /\ pc' = "browse"
    /\ ins_log' = <<>>
    /\ UNCHANGED <<store_vars, total_pages, objects, idx, inserted_this_page, hist_vars>>

\* the for loop is over: page += 1 and the next pass of the while loop
page_advance ==
    /\ pc = "records"
    /\ idx > Len(objects)
    /\ ~StopCondition(total_pages, page)
    /\ page < MaxPage
    /\ page' = page + 1
    /\ StartFetch(BrowseReq(page + 1), RETRIES)
    /\ pc' = "browse"
    /\ ins_log' = <<>>
    /\ UNCHANGED <<store_vars, total_pages, objects, idx, inserted_this_page, hist_vars>>

----------------------------------------------------------------------------
(* The crawl: any number of runs, one after the other, on the same file. *)

\* nothing archived yet, no call in progress; open: a connection is at hand
InitState(open) ==
    /\ db = {}
    /\ txn = {}
    /\ conn_open = open
    /\ total_changes = 0
    /\ now = 0
    /\ pc = "idle"
    /\ page = 0
    /\ total_pages = 0
    /\ objects = <<>>
    /\ idx = 1
    /\ inserted_this_page = 0
    /\ fstatus = "none"
    /\ freq = NoBody
    /\ attempts = 0
    /\ attempt = 0
    /\ fres = NoBody
    /\ last_exc = 0
    /\ raised = 0
    /\ nreq = 0
    /\ sleeps = <<>>
    /\ runs = 0
    /\ outcome = "none"
    /\ tp_known = FALSE
    /\ nfailed = 0
    /\ ncalls = 0
    /\ db_at_start = {}
    /\ ins_log = <<>>
    /\ norm = NoCall
    /\ nw = NwIdle

Init == InitState(FALSE) /\ world = AnyWorld

Next ==
    \/ run_start
    \/ fetch_raises
    \/ first_failed
    \/ first_fetched
    \/ browse_failed
    \/ browse_empty
    \/ browse_fetched
    \/ record_no_id
    \/ record_lookup
    \/ lookup_failed
    \/ simplify_raised
    \/ lookup_fetched
    \/ page_stop
    \/ page_advance

Spec == Init /\ [][Next]_vars

\* the crawl at a provider whose detail records can carry another id
CrossedInit == InitState(FALSE) /\ world = CrossedWorld

CrossedSpec == CrossedInit /\ [][Next]_vars

----------------------------------------------------------------------------
(* The crawl with runs that are interrupted: the process is stopped between *)
(* two steps of run() and a later run works on the file it left.            *)

\* the process is stopped: its memory is gone, the file is what the commits made it
interrupt ==
    /\ pc \in {"first", "browse", "records", "lookup"}
    /\ pc' = "idle"
    /\ outcome' = "interrupted"
    /\ page' = 0
    /\ total_pages' = 0
    /\ objects' = <<>>
    /\ idx' = 1
    /\ inserted_this_page' = 0
    /\ tp_known' = FALSE
    /\ nfailed' = 0
    /\ ncalls' = 0
    /\ EndFetch
    /\ ins_log' = <<>>
    /\ UNCHANGED <<store_vars, runs, db_at_start, world, norm, nw>>

ResumeNext ==
    \/ Next
    \/ interrupt

ResumeSpec == Init /\ [][ResumeNext]_vars

----------------------------------------------------------------------------
(* The crawl on a store that can fail: cur.execute or conn.commit raises   *)
(* sqlite3.Error (the file is locked, read-only, the disk full).  Nothing  *)
(* in _insert_asteroid or run() catches it.                                *)

\* a loop that catches the exception of the insert and goes on with the next record
insert_raised_continue ==
    /\ pc = "lookup"
    /\ \E lookup \in Returned :
         LET simplified == simplify_object_lookup(lookup,
                               GetList(objects[idx], "close_approach_data"))
         IN  /\ ~raises(simplified)
             /\ AidOf(simplified) # ""
             /\ ins_log' = <<[obj |-> simplified, before |-> db, exc |-> "sqlite3.Error"]>>
    /\ objects' = objects_after_simplify(objects, idx)
    /\ idx' = idx + 1
    /\ pc' = "records"
    /\ EndFetch
    /\ UNCHANGED <<store_vars, page, total_pages, inserted_this_page, runs, outcome,
                   tp_known, nfailed, ncalls, db_at_start, world, norm, nw>>

\* the lookup returned, the record was simplified and _insert_asteroid raised
\* at the store (a record without identifier returns before it touches the
\* store): the exception ends run() short of conn.close(), and the open
\* transaction, if any, is rolled back
insert_raised ==
    /\ pc = "lookup"
    /\ \E lookup \in Returned :
         LET simplified == simplify_object_lookup(lookup,
                               GetList(objects[idx], "close_approach_data"))
         IN  /\ ~raises(simplified)
             /\ AidOf(simplified) # ""
             /\ ins_log' = <<[obj |-> simplified, before |-> db, exc |-> "sqlite3.Error"]>>
    /\ objects' = objects_after_simplify(objects, idx)
    /\ pc' = "idle"
    /\ outcome' = "store_failed"
    /\ EndFetch
    /\ UNCHANGED <<store_vars, page, total_pages, idx, inserted_this_page, runs,
                   tp_known, nfailed, ncalls, db_at_start, world, norm, nw>>

StoreFailNext ==
    \/ Next
    \/ insert_raised

StoreFailSpec == Init /\ [][StoreFailNext]_vars

----------------------------------------------------------------------------
(* The crawl with a catalog that does not end at page MaxPage.  The page   *)
(* index MaxPage + 1 stands for every page after MaxPage: a total_pages    *)
(* the provider reports is MaxPage at most, so the stop condition reads    *)
(* the same on all of them.  A run that has started takes its next step in *)
(* finite time: each request returns or fails, and run() does the rest.    *)

\* page += 1 on a page after MaxPage - 1
page_advance_far ==
    /\ pc = "records"
    /\ idx > Len(objects)
    /\ ~StopCondition(total_pages, page)
    /\ page >= MaxPage
    /\ page' = MaxPage + 1
    /\ StartFetch(BrowseReq(MaxPage + 1), RETRIES)
    /\ pc' = "browse"
    /\ ins_log' = <<>>
    /\ UNCHANGED <<store_vars, total_pages, objects, idx, inserted_this_page, hist_vars>>

\* the steps of a run that has started
RunSteps ==
    \/ fetch_raises
    \/ first_failed
    \/ first_fetched
    \/ browse_failed
    \/ browse_empty
    \/ browse_fetched
    \/ record_no_id
    \/ record_lookup
    \/ lookup_failed
    \/ simplify_raised
    \/ lookup_fetched
    \/ page_stop
    \/ page_advance
    \/ page_advance_far

LiveNext ==
    \/ run_start
    \/ RunSteps

LiveSpec == Init /\ [][LiveNext]_vars /\ WF_vars(RunSteps)

\* LiveSpec with a provider that returns a page with zero records to a run
\* that goes on requesting pages
EndingCatalogSpec == LiveSpec /\ SF_vars(browse_empty)

----------------------------------------------------------------------------
(* A crawl that is restarted at the page it failed on.  The provider has   *)
(* fixed answers: the same pages and details whenever it is asked.  The    *)
(* first run starts at world.start; only a page fetch of the first run    *)
(* can fail; the second run starts at the page the first one failed on.    *)

\* the lists a provider with fixed answers has on its pages
WorldLists == {<<>>, <<SumA>>, <<SumNoId, SumB>>}

\* tp = -1: the provider reports no total_pages
Worlds ==
    {[fixed |-> TRUE, tp |-> t, pages |-> pg, start |-> s] :
        t \in -1..MaxPage, pg \in [0..MaxPage -> WorldLists], s \in 0..MaxPage}

restart_first_run ==
    /\ runs = 0
    /\ run_start
    /\ page' = world.start

restart_second_run ==
    /\ runs = 1
    /\ outcome \in {"first_failed", "page_failed"}
    /\ run_start
    /\ page' = page

page_fetch_raises ==
    /\ runs = 1
    /\ pc \in {"first", "browse"}
    /\ fetch_raises

RestartNext ==
    \/ restart_first_run
    \/ restart_second_run
    \/ page_fetch_raises
    \/ first_failed
    \/ first_fetched
    \/ browse_failed
    \/ browse_empty
    \/ browse_fetched
    \/ record_no_id
    \/ record_lookup
    \/ lookup_fetched
    \/ page_stop
    \/ page_advance

RestartInit == InitState(FALSE) /\ world \in Worlds

RestartSpec == RestartInit /\ [][RestartNext]_vars

(* What one run of run() from page s archives when no fetch fails: the    *)
(* loops of run() folded over the pages of the provider.  Pages beyond    *)
(* MaxPage are empty.                                                      *)

RECURSIVE ArchivePage(_, _, _)
\* the for loop over objs from position i on
ArchivePage(rows, objs, i) ==
    IF i > Len(objs) THEN rows
    ELSE LET neo_id == NeoIdOf(objs[i])
             simplified == simplify_object_lookup(WorldDetail(neo_id),
                                                  GetList(objs[i], "close_approach_data"))
         IN  IF neo_id = "" THEN ArchivePage(rows, objs, i + 1)
             ELSE ArchivePage(insert_asteroid(rows, 0, simplified, 0).rows, objs, i + 1)

RECURSIVE WalkFrom(_, _, _, _)
\* the while loop from page p on
WalkFrom(rows, p, tp, w) ==
    IF p > MaxPage \/ w.pages[p] = <<>> THEN rows
    ELSE LET after == ArchivePage(rows, w.pages[p], 1)
         IN  IF StopCondition(tp, p) THEN after ELSE WalkFrom(after, p + 1, tp, w)

\* run(s) on an empty store
UninterruptedRun(w, s) == WalkFrom({}, s, FirstTotalPages(WorldPage(w, s), s), w)

----------------------------------------------------------------------------
(* The fetcher called directly, with any attempts argument, one attempt a   *)
(* step.                                                                    *)

Requests == {BrowseReq(p) : p \in 0..MaxPage} \cup {LookupReq(i) : i \in Ids}

call_fetch ==
    /\ pc = "idle"
    /\ \E req \in Requests, n \in 0..MaxAttempts : StartFetch(req, n)
    /\ pc' = "call"
    /\ UNCHANGED <<store_vars, run_vars, hist_vars, ins_log>>

\* the caller takes the result
call_end ==
    /\ pc = "call"
    /\ fstatus \in {"returned", "raised", "runtime_error"}
    /\ EndFetch
    /\ pc' = "idle"
    /\ UNCHANGED <<store_vars, run_vars, hist_vars, ins_log>>

FetchNext ==
    \/ call_fetch
    \/ http_ok
    \/ http_fail
    \/ call_end

FetchSpec == Init /\ [][FetchNext]_vars

----------------------------------------------------------------------------
(* The store called directly: _insert_asteroid on an open connection with   *)
(* any simplified record, the clock having advanced or not since the call   *)
(* before.                                                                  *)

\* a detail record whose identifiers are empty strings
DetEmptyId == [id |-> "", neo_reference_id |-> "", name |-> "empty identifiers"]

\* the records the normaliser returns
NormalizedRecords ==
    {r \in {simplify_object_lookup(d, GetList(sm, "close_approach_data")) :
               d \in Details \cup {DetEmptyId}, sm \in Summaries} : ~raises(r)}

LastTwo(log) == IF Len(log) > 2 THEN Tail(log) ELSE log

call_insert ==
    /\ pc = "idle"
    /\ conn_open
    /\ \E obj \in NormalizedRecords, t \in {now, now + 1} \cap 0..MaxClock :
         LET ins == insert_asteroid(db, total_changes, obj, t)
         IN  /\ db' = ins.rows
             /\ total_changes' = ins.tc
             /\ now' = t
             /\ ins_log' = LastTwo(Append(ins_log,
                                          [obj |-> obj, ret |-> ins.ret, before |-> db]))
    /\ UNCHANGED <<txn, conn_open, pc, run_vars, fetch_vars, hist_vars>>

StoreInit == InitState(TRUE) /\ world = AnyWorld

StoreNext == call_insert

StoreSpec == StoreInit /\ [][StoreNext]_vars

----------------------------------------------------------------------------
(* _insert_asteroid statement by statement, with a process that can be     *)
(* stopped between any two of them and the file opened again: sqlite keeps *)
(* the rows of committed transactions and rolls back the open one.         *)
(* ins_log holds the call in progress or the one before; ret is -1 until   *)
(* the call returns.                                                       *)

\* the row _insert_asteroid writes for obj
RowOf(obj, t) == [id |-> AidOf(obj), data |-> json_dumps(obj), inserted_at |-> utcnow_text(t)]

\* aid, the early return, json.dumps, before = conn.total_changes
ins_enter ==
    /\ pc = "idle"
    /\ conn_open
    /\ \E obj \in NormalizedRecords :
         IF AidOf(obj) = ""
         THEN /\ ins_log' = <<[obj |-> obj, ret |-> 0, before |-> db, tc |-> total_changes]>>
              /\ outcome' = "returned"
              /\ pc' = "idle"
         ELSE /\ ins_log' = <<[obj |-> obj, ret |-> -1, before |-> db, tc |-> total_changes]>>
              /\ outcome' = "running"
              /\ pc' = "execute"
    /\ UNCHANGED <<store_vars, run_vars, fetch_vars, runs, tp_known, nfailed, ncalls,
                   db_at_start, world, norm, nw>>

\* cur.execute(INSERT OR IGNORE ...): the statement opens a transaction
ins_execute ==
    /\ pc = "execute"
    /\ LET seen == db \cup txn
           written == insert_or_ignore(seen, RowOf(ins_log[1].obj, now))
       IN  /\ txn' = written \ db
           /\ total_changes' = total_changes + Cardinality(written \ seen)
    /\ pc' = "commit"
    /\ UNCHANGED <<db, conn_open, now, run_vars, fetch_vars, hist_vars, ins_log>>

\* an insert that leaves its transaction open
ins_commit_forgotten ==
    /\ pc = "commit"
    /\ pc' = "return"
    /\ UNCHANGED <<store_vars, run_vars, fetch_vars, hist_vars, ins_log>>

\* conn.commit()
ins_commit ==
    /\ pc = "commit"
    /\ db' = db \cup txn
    /\ txn' = {}
    /\ pc' = "return"
    /\ UNCHANGED <<conn_open, total_changes, now, run_vars, fetch_vars, hist_vars, ins_log>>

\* after = conn.total_changes; return 1 if (after - before) > 0 else 0
ins_return ==
    /\ pc = "return"
    /\ ins_log' = <<[ins_log[1] EXCEPT
                        !.ret = IF total_changes - ins_log[1].tc > 0 THEN 1 ELSE 0]>>
    /\ outcome' = "returned"
    /\ pc' = "idle"
    /\ UNCHANGED <<store_vars, run_vars, fetch_vars, runs, tp_known, nfailed, ncalls,
                   db_at_start, world, norm, nw>>

\* the process is stopped and the file is opened again by a new connection
stop_and_reopen ==
    /\ pc \in {"idle", "execute", "commit", "return"}
    /\ txn' = {}
    /\ total_changes' = 0
    /\ outcome' = "stopped"
    /\ pc' = "idle"
    /\ UNCHANGED <<db, conn_open, now, run_vars, fetch_vars, runs, tp_known, nfailed, ncalls,
                   db_at_start, world, norm, nw, ins_log>>

DurableNext ==
    \/ ins_enter
    \/ ins_execute
    \/ ins_commit
    \/ ins_return
    \/ stop_and_reopen

DurableSpec == StoreInit /\ [][DurableNext]_vars

----------------------------------------------------------------------------
(* The normaliser called directly, with any detail record and any list of  *)
(* approach entries: what it returns and what it leaves of its arguments.  *)

\* one call a behaviour: the function keeps no state between calls
call_simplify ==
    /\ pc = "idle"
    /\ ~norm.called
    /\ \E obj_lookup \in NormDetails, approaches_from_browse \in FragmentLists :
         norm' = [called |-> TRUE,
                  obj_lookup |-> obj_lookup,
                  approaches_from_browse |-> approaches_from_browse,
                  ret |-> simplify_object_lookup(obj_lookup, approaches_from_browse),
                  obj_lookup_after |-> obj_lookup_after_simplify(obj_lookup),
                  approaches_after |-> approaches_after_simplify(approaches_from_browse)]
    /\ UNCHANGED <<store_vars, run_vars, fetch_vars, pc, ins_log, world, nw,
                   runs, outcome, tp_known, nfailed, ncalls, db_at_start>>

NormNext == call_simplify

NormSpec == Init /\ [][NormNext]_vars

----------------------------------------------------------------------------
(* neoWs.py: the lookup of one record and the feed of a date window, for   *)
(* callers outside the crawl.  Its _request_json is one HTTP GET, and an   *)
(* exception it throws ends the call of the helper.  The record            *)
(* simplification of neoWs.py:53-91 is that of archive.py:76-114, line by  *)
(* line.  A float is a function with the keys "inf" and "km".              *)

api_feed_url == "https://api.nasa.gov/neo/rest/v1/feed"

\* the exception of requests.get or raise_for_status, in place of a response
HTTPError == [py_exc |-> "HTTPError"]

\* the exception of float(km_str)
ValueError == [py_exc |-> "ValueError"]

ApFar == [close_approach_date |-> "2025-10-04",
          miss_distance |-> [kilometers |-> "900", miles |-> "559"]]

ApBadKm == [close_approach_date |-> "2025-10-05", miss_distance |-> [kilometers |-> "n/a"]]

ApSafe == [close_approach_date |-> "2025-10-06", miss_distance |-> [kilometers |-> "7"]]

\* objects of a feed: flagged hazardous with approaches at "100", at "900" and
\* "7", with no approaches, with a distance that is no number; not flagged;
\* flagged with an id and an empty neo_reference_id
FeedHazA == [neo_reference_id |-> "a", is_potentially_hazardous_asteroid |-> TRUE,
             close_approach_data |-> <<Ap1>>]
FeedHazB == [neo_reference_id |-> "b", is_potentially_hazardous_asteroid |-> TRUE,
             close_approach_data |-> <<ApFar, ApNext>>]
FeedHazBare == [neo_reference_id |-> "a", is_potentially_hazardous_asteroid |-> TRUE]
FeedHazBadKm == [neo_reference_id |-> "b", is_potentially_hazardous_asteroid |-> TRUE,
                 close_approach_data |-> <<ApBadKm>>]
FeedSafe == [neo_reference_id |-> "b", is_potentially_hazardous_asteroid |-> FALSE,
             close_approach_data |-> <<ApSafe>>]
FeedHazNoId == [id |-> "a", neo_reference_id |-> "",
                is_potentially_hazardous_asteroid |-> TRUE,
                close_approach_data |-> <<Ap1>>]

FeedEntries == {FeedHazA, FeedHazB, FeedHazBare, FeedHazBadKm, FeedSafe, FeedHazNoId}

FeedDates == <<"2025-10-01", "2025-10-02">>

\* responses of the feed endpoint: near_earth_objects maps dates to lists of
\* objects, in the order of the response (a sequence of date and objects);
\* or the key is missing
Feeds ==
    {[near_earth_objects |-> <<[date |-> FeedDates[1], objects |-> l1],
                               [date |-> FeedDates[2], objects |-> l2]>>] :
        l1 \in SeqsUpTo(FeedEntries, MaxFeed), l2 \in SeqsUpTo(FeedEntries, 1)}
    \cup {[element_count |-> 0]}

\* what the lookup endpoint does with the requests of one call, by id: it
\* answers with a detail record of that id or the request fails
NwAnswers ==
    {f \in [Ids -> Details \cup {HTTPError}] :
        \A i \in Ids : f[i] \in DetailsFor(i) \cup {HTTPError}}

RECURSIVE feed_objects(_)
\* for date, objects_on_date in ....items(): for obj in objects_on_date
feed_objects(days) ==
    IF days = <<>> THEN <<>> ELSE Head(days).objects \o feed_objects(Tail(days))

\* a filter that takes every object of the feed for hazardous
is_flagged_any(obj) == TRUE

\* obj.get("is_potentially_hazardous_asteroid") is truthy
is_flagged(obj) ==
    Has(obj, "is_potentially_hazardous_asteroid") /\ obj["is_potentially_hazardous_asteroid"]

\* float("inf") and the float of a number of kilometers
Inf == [inf |-> TRUE]
Km(n) == [inf |-> FALSE, km |-> n]

\* float(km_str) for the texts of the provider's data
float(km_str) ==
    CASE km_str = "7" -> Km(7)
      [] km_str = "100" -> Km(100)
      [] km_str = "900" -> Km(900)
      [] OTHER -> ValueError

\* x < y on floats
float_lt(x, y) == ~x.inf /\ (y.inf \/ x.km < y.km)

RECURSIVE min_miss_from(_, _, _)
\* the for loop of _min_miss_km from approach i on: an approach without
\* kilometers or with kilometers that float() rejects is passed over; .get on
\* a miss_distance that is no dict raises AttributeError, which is not caught
min_miss_from(approaches, i, min_km) ==
    IF i > Len(approaches) THEN min_km
    ELSE LET a == approaches[i]
             miss == IF Has(a, "miss_distance") THEN a["miss_distance"] ELSE EmptyDict
         IN  IF ~isinstance_dict(miss) THEN AttributeError
             ELSE IF ~Has(miss, "kilometers") THEN min_miss_from(approaches, i + 1, min_km)
             ELSE LET km == float(miss["kilometers"])
                  IN  IF raises(km) THEN min_miss_from(approaches, i + 1, min_km)
                      ELSE IF float_lt(km, min_km)
                           THEN min_miss_from(approaches, i + 1, km)
                           ELSE min_miss_from(approaches, i + 1, min_km)

\* _min_miss_km(item)
min_miss_km(item) == min_miss_from(GetList(item, "close_approach_data"), 1, Inf)

RECURSIVE insert_by_key(_, _)
\* item put into a list sorted by _min_miss_km, behind the items that are not
\* farther than it
insert_by_key(sorted, item) ==
    IF sorted = <<>> THEN <<item>>
    ELSE IF float_lt(min_miss_km(item), min_miss_km(Head(sorted)))
         THEN <<item>> \o sorted
         ELSE <<Head(sorted)>> \o insert_by_key(Tail(sorted), item)

RECURSIVE sort_by_min_miss(_)
\* objs.sort(key=_min_miss_km): a stable sort
sort_by_min_miss(objs) ==
    IF objs = <<>> THEN <<>>
    ELSE insert_by_key(sort_by_min_miss(SubSeq(objs, 1, Len(objs) - 1)), objs[Len(objs)])

RECURSIVE filter_from(_, _, _, _, _)
\* the loops of _filter_neo_feed from object i on, objs collected and lookups
\* made so far, and the sort; an exception ends the call
filter_from(entries, i, answers, objs, lookups) ==
    IF i > Len(entries)
    THEN IF \E k \in 1..Len(objs) : raises(min_miss_km(objs[k]))
         THEN [exc |-> "AttributeError", nreq |-> lookups]
         ELSE [exc |-> "", nreq |-> lookups, objs |-> sort_by_min_miss(objs)]
    ELSE LET obj == entries[i]
             neo_id == GetStr(obj, "neo_reference_id")
             simplified == simplify_object_lookup(answers[neo_id],
                                                  GetList(obj, "close_approach_data"))
         IN  IF ~is_flagged(obj) THEN filter_from(entries, i + 1, answers, objs, lookups)
             ELSE IF neo_id = "" THEN filter_from(entries, i + 1, answers, objs, lookups)
             ELSE IF answers[neo_id] = HTTPError
                  THEN [exc |-> "HTTPError", nreq |-> lookups + 1]
             ELSE IF raises(simplified)
                  THEN [exc |-> "AttributeError", nreq |-> lookups + 1]
             ELSE filter_from(entries, i + 1, answers, Append(objs, simplified), lookups + 1)

\* _filter_neo_feed(response_json), the lookups answered by answers
filter_neo_feed(response_json, answers) ==
    filter_from(feed_objects(GetList(response_json, "near_earth_objects")), 1, answers, <<>>, 0)

\* lookup_asteroid(asteroid_id) is called
nw_lookup_asteroid ==
    /\ nw.op = "none"
    /\ \E asteroid_id \in Ids :
         nw' = [op |-> "lookup_asteroid", asteroid_id |-> asteroid_id,
                status |-> "running", nreq |-> 0, failed |-> 0, exc |-> ""]
    /\ UNCHANGED <<store_vars, run_vars, fetch_vars, pc, ins_log, world, norm,
                   runs, outcome, tp_known, nfailed, ncalls, db_at_start>>

\* get_hazardous_asteroids(start_date, end_date) is called
nw_get_hazardous_asteroids ==
    /\ nw.op = "none"
    /\ nw' = [op |-> "get_hazardous_asteroids",
              start_date |-> FeedDates[1], end_date |-> FeedDates[2],
              status |-> "running", nreq |-> 0, failed |-> 0, exc |-> ""]
    /\ UNCHANGED <<store_vars, run_vars, fetch_vars, pc, ins_log, world, norm,
                   runs, outcome, tp_known, nfailed, ncalls, db_at_start>>

\* the request of the helper (_neo_lookup, _neo_feed) throws in _request_json:
\* one attempt was made, nothing catches the exception
nw_request_raises ==
    /\ nw.op # "none"
    /\ nw.status = "running"
    /\ nw' = [nw EXCEPT !.status = "raised", !.nreq = 1, !.failed = 1, !.exc = "HTTPError"]
    /\ UNCHANGED <<store_vars, run_vars, fetch_vars, pc, ins_log, world, norm,
                   runs, outcome, tp_known, nfailed, ncalls, db_at_start>>

\* the request of lookup_asteroid returns: the body is the result
nw_lookup_returns ==
    /\ nw.op = "lookup_asteroid"
    /\ nw.status = "running"
    /\ \E body \in DetailsFor(nw.asteroid_id) :
         nw' = [op |-> nw.op, asteroid_id |-> nw.asteroid_id, status |-> "returned",
                nreq |-> 1, failed |-> 0, exc |-> "", result |-> body]
    /\ UNCHANGED <<store_vars, run_vars, fetch_vars, pc, ins_log, world, norm,
                   runs, outcome, tp_known, nfailed, ncalls, db_at_start>>

\* the feed request returns and _filter_neo_feed works on the response, with
\* one lookup for each hazardous object: it returns the sorted list, or a
\* lookup throws, or the simplification or the sort raises
nw_feed_returns ==
    /\ nw.op = "get_hazardous_asteroids"
    /\ nw.status = "running"
    /\ \E response \in Feeds, answers \in NwAnswers :
         LET filtered == filter_neo_feed(response, answers)
             call == [op |-> nw.op, start_date |-> nw.start_date, end_date |-> nw.end_date,
                      response |-> response, answers |-> answers,
                      nreq |-> 1 + filtered.nreq, exc |-> filtered.exc,
                      failed |-> IF filtered.exc = "HTTPError" THEN 1 ELSE 0]
         IN  nw' = IF filtered.exc = ""
                   THEN call @@ [status |-> "returned", result |-> filtered.objs]
                   ELSE call @@ [status |-> "raised"]
    /\ UNCHANGED <<store_vars, run_vars, fetch_vars, pc, ins_log, world, norm,
                   runs, outcome, tp_known, nfailed, ncalls, db_at_start>>

NeoWsNext ==
    \/ nw_lookup_asteroid
    \/ nw_get_hazardous_asteroids
    \/ nw_request_raises
    \/ nw_lookup_returns
    \/ nw_feed_returns

NeoWsSpec == Init /\ [][NeoWsNext]_vars

----------------------------------------------------------------------------
(* Properties. *)

IdsIn(rows) == {r.id : r \in rows}

RECURSIVE SumSeq(_)
SumSeq(q) == IF q = <<>> THEN 0 ELSE Head(q) + SumSeq(Tail(q))

\* the records among the first n of list that carry no usable identifier
NoIdCount(list, n) ==
    Cardinality({i \in 1..n : GetStr(list[i], "neo_reference_id") = ""
                              /\ GetStr(list[i], "id") = ""})

\* C1 (StoreSpec): when the same record, one with a usable identifier, is
\* inserted twice in a row, the store holds exactly one row with its id, the
\* second insert returns 0, and the first returned 1 exactly when the id was
\* not yet stored.
IdempotentInsert ==
    (Len(ins_log) = 2 /\ ins_log[1].obj = ins_log[2].obj /\ AidOf(ins_log[2].obj) # "")
    => LET aid == AidOf(ins_log[2].obj)
       IN  /\ Cardinality({r \in db : r.id = aid}) = 1
           /\ ins_log[2].ret = 0
           /\ ins_log[2].before = db
           /\ ins_log[1].ret = (IF aid \in IdsIn(ins_log[1].before) THEN 0 ELSE 1)

\* the same record inserted twice, the first time as a new row
IdempotentInsertWitness ==
    /\ Len(ins_log) = 2
    /\ ins_log[1].obj = ins_log[2].obj
    /\ AidOf(ins_log[2].obj) # ""
    /\ ins_log[1].ret = 1
    /\ ins_log[2].ret = 0
    /\ now > 0

\* C2 (Spec): every step of the pipeline keeps each stored row as it is
\* (payload and inserted_at) and adds rows only under ids not yet stored; an
\* insert whose id is already stored changes nothing and returns 0.
WriteOnceRows ==
    [][/\ \A r \in db : r \in db'
       /\ \A r \in db' \ db : r.id \notin IdsIn(db)
       /\ Cardinality(IdsIn(db')) = Cardinality(db')
       /\ (ncalls' = ncalls + 1 /\ AidOf(ins_log'[1].obj) \in IdsIn(db))
             => (db' = db /\ ins_log'[1].ret = 0
                 /\ inserted_this_page' = inserted_this_page)]_vars

\* an insert has just met a row of its id with another payload, written in an earlier run
WriteOnceWitness ==
    /\ pc = "records"
    /\ ins_log # <<>>
    /\ \E q \in db : /\ q.id = AidOf(ins_log[1].obj)
                     /\ q.data # json_dumps(ins_log[1].obj)
                     /\ q.inserted_at # utcnow_text(now)

\* C3 (FetchSpec): a call with attempts = N >= 1 never issues more than N
\* requests; when every attempt failed it has issued exactly N, raises the
\* exception of attempt N, and has slept BACKOFF_FACTOR * k after each failed
\* attempt k < N and nothing else: BACKOFF_FACTOR * (1 + ... + (N-1)) in all.
RetryBound ==
    /\ fstatus \in {"running", "returned", "raised"} => nreq <= attempts
    /\ fstatus = "raised"
         => /\ attempts >= 1
            /\ nreq = attempts
            /\ raised = attempts
            /\ Len(sleeps) = attempts - 1
            /\ \A k \in 1..(attempts - 1) : sleeps[k] = BACKOFF_FACTOR * k
            /\ SumSeq(sleeps) = BACKOFF_FACTOR * (((attempts - 1) * attempts) \div 2)

\* a call with the default attempts has failed for good
RetryBoundWitness ==
    /\ fstatus = "raised"
    /\ attempts = RETRIES
    /\ nreq = 3
    /\ sleeps = <<1000, 2000>>

\* C4 (FetchSpec): a call that returns at attempt k <= attempts has issued
\* exactly k requests, of which the first k-1 failed, has slept
\* BACKOFF_FACTOR * j after each failed attempt j and RATE_LIMIT_SLEEP once,
\* last, and returns a body of the provider; no further attempt can follow.
FetchSuccess ==
    fstatus = "returned"
    => /\ attempt <= attempts
       /\ nreq = attempt
       /\ last_exc = attempt - 1
       /\ Len(sleeps) = attempt
       /\ \A j \in 1..(attempt - 1) : sleeps[j] = BACKOFF_FACTOR * j
       /\ sleeps[attempt] = RATE_LIMIT_SLEEP
       /\ fres \in Responses(freq)
       /\ ~ENABLED http_ok
       /\ ~ENABLED http_fail

\* the third attempt of a call succeeded
FetchSuccessWitness ==
    /\ fstatus = "returned"
    /\ attempt = 3
    /\ sleeps = <<1000, 2000, 120>>

\* C5 (Spec): a lookup that failed skips its record and nothing else: the next
\* step is the next record of the same page, with the store, the insert count
\* and the connection as they were; and at every point of a page each record
\* passed was skipped for lack of an id, failed its lookup, or was inserted.
PerRecordIsolation ==
    /\ [](pc \in {"records", "lookup"}
            => /\ conn_open
               /\ idx <= Len(objects) + 1
               /\ ncalls + nfailed + NoIdCount(objects, idx - 1) = idx - 1)
    /\ [][(pc = "lookup" /\ fstatus = "raised")
            => /\ pc' = "records"
               /\ idx' = idx + 1
               /\ nfailed' = nfailed + 1
               /\ db' = db
               /\ <<ncalls', inserted_this_page', objects', page', conn_open'>>
                    = <<ncalls, inserted_this_page, objects, page, TRUE>>]_vars

\* a page is finished on which one lookup failed and a later record was inserted as new
PerRecordIsolationWitness ==
    /\ pc = "records"
    /\ idx > Len(objects)
    /\ nfailed = 1
    /\ ins_log # <<>>
    /\ ins_log[1].ret = 1

\* C6 (Spec): when the fetch of a page of the loop has failed, the next step
\* ends the run at that page with the store as it was and the connection
\* closed, and a run that ended this way has kept every row it started with;
\* after the end of a run nothing happens but the start of another run.
PageFailureFatal ==
    /\ [](outcome = "page_failed"
            => pc = "idle" /\ ~conn_open /\ fstatus = "none" /\ db_at_start \subseteq db)
    /\ [][/\ (pc = "browse" /\ fstatus = "raised")
               => /\ pc' = "idle"
                  /\ outcome' = "page_failed"
                  /\ fstatus' = "none"
                  /\ <<db', page', conn_open'>> = <<db, page, FALSE>>
          /\ pc = "idle" => (runs' = runs + 1 /\ db' = db)]_vars

\* a run ended by a page failure after it had archived rows
PageFailureWitness ==
    /\ outcome = "page_failed"
    /\ db # db_at_start
    /\ objects # <<>>

\* C7 (Spec): when the first fetch of the start page has failed, the next step
\* ends the run; a run that ended this way has processed no page, issued no
\* lookup, inserted nothing, and left the store as it found it.
FirstFailureAborts ==
    /\ [](outcome = "first_failed"
            => /\ pc = "idle" /\ ~conn_open /\ fstatus = "none"
               /\ db = db_at_start
               /\ objects = <<>> /\ ncalls = 0 /\ nfailed = 0 /\ total_changes = 0)
    /\ [](pc = "first" => db = db_at_start /\ objects = <<>> /\ freq = BrowseReq(page))
    /\ [][(pc = "first" /\ fstatus = "raised")
            => (pc' = "idle" /\ outcome' = "first_failed" /\ db' = db)]_vars

\* a run on a store with rows ended by the failure of its first fetch
FirstFailureWitness ==
    /\ outcome = "first_failed"
    /\ db # {}

\* C8 (Spec): in a run whose first response carried no total_pages, every
\* page with records is followed by the request of the next page, and the run
\* ends successfully only on a page with zero records.
UnknownTotalStopsOnEmptyOnly ==
    /\ []((pc = "idle" /\ outcome \in {"no_objects", "total_reached"} /\ ~tp_known)
            => outcome = "no_objects")
    /\ [][(~tp_known /\ pc = "records" /\ idx > Len(objects))
            => (pc' = "browse" /\ page' = page + 1)]_vars

\* C9 (Spec): with total_pages known from the first response, a page n with
\* records is followed by the successful end of the run if n >= total_pages
\* and by the request of page n + 1 if n < total_pages.
KnownTotalStops ==
    [][(tp_known /\ pc = "records" /\ idx > Len(objects))
         => IF page >= total_pages
            THEN pc' = "idle" /\ outcome' = "total_reached" /\ page' = page
            ELSE pc' = "browse" /\ page' = page + 1]_vars

\* C10 (Spec): a page fetch in progress has three ways on: it fails, it hands
\* a page with records to the loop, or the run ends at this page as done with
\* no objects; in none of them is a row written or another page requested.
\* A response with zero records can only take the third way, whatever
\* total_pages is.
ZeroRecordsStop ==
    [][(pc = "browse" /\ fstatus = "running")
         => /\ <<db', page', total_pages'>> = <<db, page, total_pages>>
            /\ \/ pc' = "browse" /\ fstatus' = "raised"
               \/ pc' = "records" /\ objects' # <<>> /\ idx' = 1
               \/ /\ pc' = "idle" /\ outcome' = "no_objects"
                  /\ ~conn_open' /\ fstatus' = "none"
                  /\ <<objects', inserted_this_page'>> = <<objects, inserted_this_page>>]_vars

\* a run ended on an empty page before the total_pages it knew was reached
ZeroRecordsWitness ==
    /\ outcome = "no_objects"
    /\ tp_known
    /\ page < total_pages
    /\ db # db_at_start

\* C11 (ResumeSpec): over successive runs on the same file, whatever page
\* each starts at and however the one before ended (done, aborted or
\* interrupted between two inserts): the store never holds two rows of one
\* id, holds every row the current run found when it started, as it found it,
\* and holds a row for the id of every insert made; a step changes the store
\* only by an insert, which adds the one row of its record's id.
Resumability ==
    /\ [](/\ Cardinality(IdsIn(db)) = Cardinality(db)
          /\ db_at_start \subseteq db
          /\ (ins_log # <<>> /\ AidOf(ins_log[1].obj) # "")
               => Cardinality({r \in db : r.id = AidOf(ins_log[1].obj)}) = 1)
    /\ [][/\ db \subseteq db'
          /\ db' # db
               => /\ ncalls' = ncalls + 1
                  /\ ins_log' # <<>>
                  /\ db' \ db = {[id |-> AidOf(ins_log'[1].obj),
                                  data |-> json_dumps(ins_log'[1].obj),
                                  inserted_at |-> utcnow_text(now)]}
                  /\ AidOf(ins_log'[1].obj) \notin IdsIn(db)]_vars

\* a second run has met a row of the first run again and archived a row of its own
ResumabilityWitness ==
    /\ runs = 2
    /\ pc = "records"
    /\ ins_log # <<>>
    /\ ins_log[1].ret = 0
    /\ AidOf(ins_log[1].obj) \in IdsIn(db_at_start)
    /\ db # db_at_start
    /\ db_at_start # {}

\* the ids of rows with their payloads
Payloads(rows) == {[id |-> r.id, data |-> r.data] : r \in rows}

\* a first run that ends by itself has archived what UninterruptedRun says
UninterruptedRunAgrees ==
    (runs = 1 /\ pc = "idle" /\ outcome \in {"no_objects", "total_reached"})
    => Payloads(db) = Payloads(UninterruptedRun(world, world.start))

\* C12 (RestartSpec): when the run from world.start was aborted by the failure
\* of a page fetch and a second run, started at the page that failed, has
\* ended by itself, the store holds the ids and payloads that one
\* uninterrupted run from world.start archives.
RestartFromFailedPage ==
    (runs = 2 /\ pc = "idle" /\ outcome \in {"no_objects", "total_reached"})
    => Payloads(db) = Payloads(UninterruptedRun(world, world.start))

\* C13 (DurableSpec), as claimed: a transaction holds one row at most and none
\* is open between two calls; an insert that returned 1 has its row in the
\* file; and whenever no call is under way, also after the process was
\* stopped and the file reopened, the file holds the rows it held before the
\* latest call plus the row of that call exactly if the call had returned 1.
DurablePerInsert ==
    /\ Cardinality(txn) <= 1
    /\ pc = "idle" => txn = {}
    /\ (pc = "idle" /\ ins_log # <<>>)
         => db = ins_log[1].before
                   \cup (IF ins_log[1].ret = 1 THEN {RowOf(ins_log[1].obj, now)} ELSE {})

\* C13 (DurableSpec), amended: as above, but a call that was cut short by the
\* stop of the process has left either nothing or, if its commit was done,
\* its complete row; a call that returned has done what _insert_asteroid does
\* in one piece.
DurableUpToCallInProgress ==
    /\ Cardinality(txn) <= 1
    /\ pc = "idle" => txn = {}
    /\ (pc = "idle" /\ ins_log # <<>>)
         => LET c == ins_log[1]
            IN  /\ c.ret = 1 => db = c.before \cup {RowOf(c.obj, now)}
                /\ c.ret = 0 => db = c.before
                /\ c.ret = -1 => /\ outcome = "stopped"
                                 /\ db \in {c.before, c.before \cup {RowOf(c.obj, now)}}
                /\ outcome = "returned"
                     => [rows |-> db, tc |-> total_changes, ret |-> c.ret]
                          = insert_asteroid(c.before, c.tc, c.obj, now)
    /\ pc \in {"execute", "commit"} => db = ins_log[1].before

\* the process was stopped after the commit of a new row and before the call returned
StoppedAfterCommitWitness ==
    /\ pc = "idle"
    /\ outcome = "stopped"
    /\ ins_log # <<>>
    /\ ins_log[1].ret = -1
    /\ db = ins_log[1].before \cup {RowOf(ins_log[1].obj, now)}
    /\ db # ins_log[1].before
    /\ ins_log[1].before # {}

\* C14 (StoreSpec), as claimed: an insert of a record whose id is absent or
\* empty leaves the store as it was and returns 0.
NoIdInsertIsNoOp ==
    (ins_log # <<>> /\ GetStr(ins_log[Len(ins_log)].obj, "id") = "")
    => /\ ins_log[Len(ins_log)].ret = 0
       /\ db = ins_log[Len(ins_log)].before

\* C14 (StoreSpec), amended: an insert of a record whose id and
\* neo_reference_id are both absent or empty leaves the store as it was and
\* returns 0.
NoIdentifierInsertIsNoOp ==
    (/\ ins_log # <<>>
     /\ GetStr(ins_log[Len(ins_log)].obj, "id") = ""
     /\ GetStr(ins_log[Len(ins_log)].obj, "neo_reference_id") = "")
    => /\ ins_log[Len(ins_log)].ret = 0
       /\ db = ins_log[Len(ins_log)].before
       /\ \A r \in db : r.id # ""

\* a record with empty identifiers and one with none have been passed to a store with rows
NoIdentifierInsertWitness ==
    /\ Len(ins_log) = 2
    /\ ins_log[1].obj = simplify_object_lookup(DetEmptyId, <<>>)
    /\ ~Has(ins_log[2].obj, "id")
    /\ ~Has(ins_log[2].obj, "neo_reference_id")
    /\ ins_log[2].ret = 0
    /\ db # {}

\* the list the latest direct call of the normaliser worked on
NormList == or_empty_list(norm.approaches_from_browse)

\* the close_approach_data of the record it returned
NormApproachesOut == norm.ret["close_approach_data"]

\* C15 (NormSpec): the normaliser returns a record for every detail record and
\* every list of approach entries, the malformed ones included, and the record
\* has no estimated_diameter when the detail's is missing, null or no mapping.
NormalizationNeverRaises ==
    norm.called
    => /\ ~raises(norm.ret)
       /\ (\/ ~Has(norm.obj_lookup, "estimated_diameter")
           \/ ~isinstance_dict(norm.obj_lookup["estimated_diameter"]))
            => ~Has(norm.ret, "estimated_diameter")

\* C16 (NormSpec): in every approach entry of the record returned,
\* miss_distance has lost 'lunar' and 'miles' and kept its kilometers value,
\* relative_velocity has lost 'miles_per_hour' and kept its
\* kilometers_per_second value; {kilometers: 100, lunar: 0.26, miles: 62}
\* has become exactly {kilometers: 100}.
Sanitization ==
    (norm.called /\ ~raises(norm.ret))
    => \A i \in 1..Len(NormApproachesOut) :
         LET before == NormList[i]
             after == NormApproachesOut[i]
         IN  /\ (Has(before, "miss_distance") /\ isinstance_dict(before["miss_distance"]))
                  => /\ Has(after, "miss_distance")
                     /\ ~Has(after["miss_distance"], "lunar")
                     /\ ~Has(after["miss_distance"], "miles")
                     /\ Has(before["miss_distance"], "kilometers")
                          => /\ Has(after["miss_distance"], "kilometers")
                             /\ after["miss_distance"]["kilometers"]
                                  = before["miss_distance"]["kilometers"]
                     /\ before["miss_distance"]
                           = [kilometers |-> "100", lunar |-> "0.26", miles |-> "62"]
                          => after["miss_distance"] = [kilometers |-> "100"]
             /\ (Has(before, "relative_velocity")
                   /\ isinstance_dict(before["relative_velocity"]))
                  => /\ Has(after, "relative_velocity")
                     /\ ~Has(after["relative_velocity"], "miles_per_hour")
                     /\ Has(before["relative_velocity"], "kilometers_per_second")
                          => /\ Has(after["relative_velocity"], "kilometers_per_second")
                             /\ after["relative_velocity"]["kilometers_per_second"]
                                  = before["relative_velocity"]["kilometers_per_second"]

\* the entry of the example has been sanitised
SanitizationWitness ==
    /\ norm.called
    /\ ~raises(norm.ret)
    /\ \E i \in 1..Len(NormList) :
         /\ NormList[i] = ApExample
         /\ NormApproachesOut[i]["miss_distance"] = [kilometers |-> "100"]

\* C17 (NormSpec): when the detail record has a kilometers block in its
\* estimated_diameter, the record returned has estimated_diameter with the
\* single key 'kilometers' and that block as its value; when it has none, or
\* no estimated_diameter, the record returned has no estimated_diameter key.
DiameterRestricted ==
    (norm.called /\ ~raises(norm.ret))
    => LET d == norm.obj_lookup
           has_km == /\ Has(d, "estimated_diameter")
                     /\ isinstance_dict(d["estimated_diameter"])
                     /\ Has(d["estimated_diameter"], "kilometers")
                     /\ ~is_none(d["estimated_diameter"]["kilometers"])
       IN  IF has_km
           THEN /\ Has(norm.ret, "estimated_diameter")
                /\ DOMAIN norm.ret["estimated_diameter"] = {"kilometers"}
                /\ norm.ret["estimated_diameter"]["kilometers"]
                     = d["estimated_diameter"]["kilometers"]
           ELSE ~Has(norm.ret, "estimated_diameter")

\* a detail record with miles only has lost its estimated_diameter
DiameterOmittedWitness ==
    /\ norm.called
    /\ ~raises(norm.ret)
    /\ Has(norm.obj_lookup, "estimated_diameter")
    /\ DOMAIN norm.obj_lookup["estimated_diameter"] = {"miles"}
    /\ ~Has(norm.ret, "estimated_diameter")

\* C18 (NormSpec): a call of the normaliser leaves the detail record and the
\* list of approach entries, with every entry in it, as they were before.
NormalizerPure ==
    norm.called
    => /\ norm.obj_lookup_after = norm.obj_lookup
       /\ norm.approaches_after = norm.approaches_from_browse

ApproachReplacement ==
    (norm.called /\ ~raises(norm.ret))
    => LET history == GetList(norm.obj_lookup, "close_approach_data")
       IN  /\ Has(norm.ret, "close_approach_data")
           /\ Len(NormApproachesOut) = Len(NormList)
           /\ \A i \in 1..Len(NormApproachesOut) :
                /\ DOMAIN NormApproachesOut[i] = DOMAIN NormList[i]
                /\ \A k \in DOMAIN NormList[i] \ {"miss_distance", "relative_velocity"} :
                     NormApproachesOut[i][k] = NormList[i][k]
                /\ \A j \in 1..Len(history) :
                     GetStr(NormApproachesOut[i], "close_approach_date")
                       # GetStr(history[j], "close_approach_date")
           /\ norm.approaches_from_browse \in {<<>>, NoneAsList}
                => NormApproachesOut = <<>>

\* two different entries of the page have replaced the history of the detail record
ApproachReplacementWitness ==
    /\ norm.called
    /\ ~raises(norm.ret)
    /\ GetList(norm.obj_lookup, "close_approach_data") # <<>>
    /\ Len(NormList) = 2
    /\ NormList[1] # NormList[2]
    /\ Len(NormApproachesOut) = 2

\* C21 (NormSpec): the record a call of the normaliser returned for a detail
\* record d and a list a is returned again when the normaliser is called on
\* that record with a, be it a as it was passed or a as the first call left
\* it; the payload of the record is then the same too.
NormalizationIdempotent ==
    (norm.called /\ ~raises(norm.ret))
    => /\ simplify_object_lookup(norm.ret, norm.approaches_from_browse) = norm.ret
       /\ simplify_object_lookup(norm.ret, norm.approaches_after) = norm.ret
       /\ json_dumps(simplify_object_lookup(norm.ret, norm.approaches_from_browse))
            = json_dumps(norm.ret)

\* a call that changed the detail record (links, diameter, approaches) and
\* whose result the normaliser returns as it is
NormalizationIdempotentWitness ==
    /\ norm.called
    /\ ~raises(norm.ret)
    /\ Has(norm.obj_lookup, "links")
    /\ Has(norm.obj_lookup, "estimated_diameter")
    /\ Has(norm.ret, "estimated_diameter")
    /\ norm.ret["estimated_diameter"] # norm.obj_lookup["estimated_diameter"]
    /\ Len(NormList) = 2
    /\ NormApproachesOut # NormList
    /\ simplify_object_lookup(norm.ret, norm.approaches_from_browse) = norm.ret

\* C22 (Spec): total_pages gets its value when the first fetch of the start
\* page returns, from that response; no later step of the run changes it,
\* whatever the responses of the page fetches of the loop carry; and at the
\* end of each page the run stops or goes on by that value.
TotalPagesFixed ==
    [][/\ (pc = "first" /\ pc' = "browse")
            => total_pages' \in {FirstTotalPages(first, page) : first \in Returned}
       /\ pc \in {"browse", "records", "lookup"} => total_pages' = total_pages
       /\ (pc = "records" /\ idx > Len(objects))
            => IF total_pages # 0 /\ page >= total_pages
               THEN pc' = "idle" /\ outcome' = "total_reached"
               ELSE pc' = "browse" /\ page' = page + 1]_vars

\* a run that knows total_pages = 2 has finished page 1, whose response was
\* fetched after the first one
TotalPagesFixedWitness ==
    /\ pc = "records"
    /\ idx > Len(objects)
    /\ tp_known
    /\ total_pages = 2
    /\ page = 1
    /\ db # db_at_start

\* C23 (Spec): within a run the page index changes only by one step up, taken
\* when every record of the page has been looked up and inserted or skipped,
\* and the step requests the page it leads to; a page fetch in progress is
\* the fetch of the current page, and its records are taken one after the
\* other from the first; a page is handed to the loop once, after the first
\* fetch or after the step up from the page before.
PagesInOrder ==
    /\ [](pc \in {"first", "browse"} => freq = BrowseReq(page))
    /\ [](pc \in {"records", "lookup"} => idx \in 1..(Len(objects) + 1))
    /\ [][/\ pc # "idle"
              => \/ page' = page
                 \/ /\ page' = page + 1
                    /\ pc = "records" /\ idx > Len(objects)
                    /\ pc' = "browse" /\ freq' = BrowseReq(page + 1)
          /\ (pc' = "browse" /\ pc # "browse") => (pc = "first" \/ page' = page + 1)
          /\ (pc' = "records" /\ pc = "browse") => (idx' = 1 /\ page' = page)
          /\ (pc \in {"records", "lookup"} /\ pc' \in {"records", "lookup"})
              => /\ idx' \in {idx, idx + 1}
                 /\ Len(objects') = Len(objects)
                 /\ page' = page]_vars

\* a run that started at page 0 (its total_pages is the fallback, 0) has
\* finished pages 0 and 1 and requests page 2
PagesInOrderWitness ==
    /\ pc = "browse"
    /\ page = 2
    /\ ~tp_known
    /\ total_pages = 0
    /\ db # db_at_start

\* C24 (Spec): when the record the loop is at has neither a neo_reference_id
\* nor an id that is not empty, the next step passes to the record after it
\* on the same page: no request is issued, no insert made, the store, the
\* insert count and the connection stay as they are and the run goes on; and
\* whenever a record of the page is left, the loop can take it.
NoIdSkipped ==
    /\ []((pc = "records" /\ idx <= Len(objects))
            => ENABLED (record_no_id \/ record_lookup))
    /\ [][(/\ pc = "records" /\ idx <= Len(objects)
           /\ GetStr(objects[idx], "neo_reference_id") = ""
           /\ GetStr(objects[idx], "id") = "")
            => /\ pc' = "records"
               /\ idx' = idx + 1
               /\ fstatus' = "none" /\ nreq' = 0
               /\ db' = db
               /\ <<ncalls', nfailed', inserted_this_page', objects', page'>>
                    = <<ncalls, nfailed, inserted_this_page, objects, page>>
               /\ outcome' = "running" /\ conn_open']_vars

\* the record after one without identifier has been archived as a new row
NoIdSkippedWitness ==
    /\ pc = "records"
    /\ idx = 3
    /\ GetStr(objects[1], "neo_reference_id") = ""
    /\ GetStr(objects[1], "id") = ""
    /\ ncalls = 1
    /\ ins_log # <<>>
    /\ ins_log[1].ret = 1

\* C25 (Spec): inserted_this_page is 0 when the loop over a page begins and
\* from then on grows with every step by the number of rows the step adds to
\* the store, so that at the end of the page it is the number of rows gained
\* since the page began; a record without identifier, a lookup that failed
\* and an insert under an id already stored add nothing to it.
PerPageInsertCount ==
    [][/\ (pc = "browse" /\ pc' = "records") => (inserted_this_page' = 0 /\ db' = db)
       /\ pc \in {"records", "lookup"}
            => /\ db \subseteq db'
               /\ inserted_this_page' - inserted_this_page = Cardinality(db' \ db)
       /\ (pc = "records" /\ idx <= Len(objects) /\ NoIdCount(objects, idx) > NoIdCount(objects, idx - 1))
            => inserted_this_page' = inserted_this_page
       /\ (pc = "lookup" /\ fstatus = "raised") => inserted_this_page' = inserted_this_page
       /\ (ncalls' = ncalls + 1 /\ AidOf(ins_log'[1].obj) \in IdsIn(db))
            => inserted_this_page' = inserted_this_page]_vars

\* a page is finished on which two records were inserted and one of them was new
PerPageInsertCountWitness ==
    /\ pc = "records"
    /\ idx > Len(objects)
    /\ ncalls = 2
    /\ inserted_this_page = 1
    /\ Cardinality(db) = Cardinality(db_at_start) + 1

\* C26 (LiveSpec): a run whose first response reported a total_pages ends,
\* whatever the pages after it hold.
ReportedTotalTerminates == (tp_known /\ pc # "idle") ~> (pc = "idle")

\* a run whose first response reported a total_pages of one or more ends
PositiveTotalTerminates == (tp_known /\ total_pages > 0 /\ pc # "idle") ~> (pc = "idle")

\* every run ends when the provider returns a page with zero records in the end
EndingCatalogTerminates == (pc # "idle") ~> (pc = "idle")

\* C27 (StoreFailSpec): the step in which an insert raises at the store ends
\* the run at that record, with the store as it was; a run that ended this
\* way has no request in progress and has kept every row it started with and
\* every row it had committed; after the end of a run nothing happens but
\* the start of another run.
StoreFailureFatal ==
    /\ [](outcome = "store_failed"
            => pc = "idle" /\ fstatus = "none" /\ db_at_start \subseteq db)
    /\ [][/\ (ins_log' # <<>> /\ Has(ins_log'[1], "exc"))
               => /\ pc = "lookup"
                  /\ pc' = "idle"
                  /\ outcome' = "store_failed"
                  /\ fstatus' = "none"
                  /\ <<db', page', idx', ncalls', inserted_this_page'>>
                       = <<db, page, idx, ncalls, inserted_this_page>>
          /\ pc = "idle" => (runs' = runs + 1 /\ db' = db)]_vars

\* a run ended by a store failure after it had archived a row, with a record
\* of the page still to come
StoreFailureWitness ==
    /\ outcome = "store_failed"
    /\ db # db_at_start
    /\ ins_log # <<>>
    /\ Has(ins_log[1], "exc")
    /\ idx < Len(objects)

\* C28 (NeoWsSpec): a call of lookup_asteroid or get_hazardous_asteroids ends
\* in the exception of a request only when RETRIES attempts of that request
\* have failed: a request that fails on fewer attempts is made again, and the
\* caller gets the record or the list.
NeoWsRetries ==
    (nw.op # "none" /\ nw.status = "raised" /\ nw.exc = "HTTPError")
    => nw.failed >= RETRIES

\* the objects of the feed of the latest call that are flagged potentially
\* hazardous and have a neo_reference_id that is not empty, in feed order
FeedFlagged ==
    LET entries == feed_objects(GetList(nw.response, "near_earth_objects"))
        keep(obj) == /\ Has(obj, "is_potentially_hazardous_asteroid")
                     /\ obj["is_potentially_hazardous_asteroid"] = TRUE
                     /\ GetStr(obj, "neo_reference_id") # ""
    IN  SelectSeq(entries, keep)

\* the normalized record of a feed object: the detail record the lookup of
\* its id was answered with, with the approaches of the feed object
FeedRecord(obj) ==
    simplify_object_lookup(nw.answers[obj["neo_reference_id"]],
                           GetList(obj, "close_approach_data"))

\* the distances in kilometers that can be parsed among the approaches of a record
KmOf(record) ==
    LET approaches == GetList(record, "close_approach_data")
    IN  {float(approaches[i]["miss_distance"]["kilometers"]).km :
            i \in {j \in 1..Len(approaches) :
                      /\ Has(approaches[j], "miss_distance")
                      /\ Has(approaches[j]["miss_distance"], "kilometers")
                      /\ ~raises(float(approaches[j]["miss_distance"]["kilometers"]))}}

\* C29 (NeoWsSpec): the list get_hazardous_asteroids returns holds the
\* normalized record of each flagged feed object with a neo_reference_id, as
\* many times as the feed holds such objects that yield it, and nothing else;
\* a record with a parseable distance comes before every record without one,
\* and of two records with parseable distances the one that comes first has a
\* smallest distance not larger than that of the other.
DateWindowResult ==
    (nw.op = "get_hazardous_asteroids" /\ nw.status = "returned")
    => LET flagged == FeedFlagged
           result == nw.result
       IN  /\ Len(result) = Len(flagged)
           /\ \A i \in 1..Len(flagged) :
                Cardinality({k \in 1..Len(result) : result[k] = FeedRecord(flagged[i])})
                  = Cardinality({k \in 1..Len(flagged) :
                                   FeedRecord(flagged[k]) = FeedRecord(flagged[i])})
           /\ \A i, j \in 1..Len(result) :
                i < j => \/ KmOf(result[j]) = {}
                         \/ /\ KmOf(result[i]) # {}
                            /\ \E x \in KmOf(result[i]) : \A y \in KmOf(result[j]) : x <= y

\* a list of two records was returned for a feed of three objects, one of
\* them not flagged: the sort has moved the record with a distance ahead of
\* the record without one, which the feed holds before it
DateWindowResultWitness ==
    /\ nw.op = "get_hazardous_asteroids"
    /\ nw.status = "returned"
    /\ LET entries == feed_objects(GetList(nw.response, "near_earth_objects"))
       IN  Len(entries) = 3 /\ \E i \in 1..3 : entries[i] = FeedSafe
    /\ Len(nw.result) = 2
    /\ Len(FeedFlagged) = 2
    /\ nw.result[1] = FeedRecord(FeedFlagged[2])
    /\ nw.result[1] # FeedRecord(FeedFlagged[1])
    /\ KmOf(nw.result[1]) # {}
    /\ KmOf(nw.result[2]) = {}

\* C30 (NormSpec): the record the normaliser returns has no top-level key
\* 'links', whether the detail record had one or not, and so has the payload
\* written for it.
LinksDropped ==
    (norm.called /\ ~raises(norm.ret))
    => /\ ~Has(norm.ret, "links")
       /\ ~Has(json_dumps(norm.ret)[2], "links")

\* a detail record with links has been simplified, and one without
LinksDroppedWitness ==
    /\ norm.called
    /\ ~raises(norm.ret)
    /\ Has(norm.obj_lookup, "links")
    /\ ~Has(norm.ret, "links")
    /\ Has(norm.ret, "name")
    /\ norm.approaches_from_browse = <<>>

\* every payload archived by a crawl is without top-level links
ArchivedWithoutLinks == \A r \in db : ~Has(r.data[2], "links")

\* C31 (Spec): a browse request is started at three places only: at the start
\* of the run, for the start page; when the first request has returned, for
\* the start page once more, no record of the first response being kept; and
\* at the step up from a finished page, for the page after it.  The records
\* the loop works on are those of a response to the request in progress,
\* which for the start page is the second one; and when the second request
\* for the start page fails, the run ends there with the store as it was at
\* the start of the run.
StartPageRequestedTwice ==
    /\ []((pc = "browse" /\ objects = <<>>)
            => /\ freq = BrowseReq(page)
               /\ db = db_at_start /\ total_changes = 0 /\ inserted_this_page = 0)
    /\ [][/\ (pc = "first" /\ fstatus = "running" /\ pc' # "first")
              => /\ pc' = "browse" /\ fstatus' = "running"
                 /\ page' = page /\ freq' = BrowseReq(page) /\ nreq' = 0
                 /\ objects' = <<>>
          /\ (/\ pc' \in {"first", "browse"} /\ fstatus' = "running"
              /\ (pc' # pc \/ fstatus # "running" \/ page' # page))
              => \/ pc = "idle" /\ pc' = "first" /\ freq' = BrowseReq(page')
                 \/ pc = "first" /\ pc' = "browse" /\ page' = page
                 \/ /\ pc = "records" /\ pc' = "browse"
                    /\ page' = page + 1 /\ freq' = BrowseReq(page + 1)
          /\ (pc = "browse" /\ pc' # "browse")
              => \/ pc' = "idle"
                 \/ /\ pc' = "records" /\ page' = page
                    /\ [near_earth_objects |-> objects'] \in Returned
          /\ (pc = "browse" /\ objects = <<>> /\ fstatus = "raised")
              => /\ pc' = "idle" /\ outcome' = "page_failed"
                 /\ db' = db_at_start /\ total_changes' = 0]_vars

\* the second run on a store with rows learnt total_pages from its first
\* request and ended at the failure of its second request for the start page
StartPageRequestedTwiceWitness ==
    /\ pc = "idle"
    /\ outcome = "page_failed"
    /\ objects = <<>>
    /\ tp_known
    /\ runs = 2
    /\ db # {}
    /\ db = db_at_start

\* the key _insert_asteroid gives a record: its id, else its neo_reference_id
KeyOf(record) ==
    IF GetStr(record, "id") # "" THEN record["id"] ELSE GetStr(record, "neo_reference_id")

\* C32 (CrossedSpec): every row of the store has a key that is not empty,
\* which is the id, else the neo_reference_id, of the record it holds; and the
\* insert made when a lookup has returned works by the key of the detail
\* record returned, whatever the identifier the lookup was issued with: with
\* a key, a row of that key is in the store afterwards and no row of another
\* key is added; without one, the store stays as it was, nothing is added to
\* the count of the page and the run goes on with the next record.
KeyFromDetail ==
    /\ [](\A r \in db : r.id # "" /\ r.id = KeyOf(r.data[2]))
    /\ [][(pc = "lookup" /\ ncalls' = ncalls + 1)
            => \E lookup \in Returned :
                 /\ ins_log'[1].obj = simplify_object_lookup(lookup,
                                          GetList(objects[idx], "close_approach_data"))
                 /\ IF KeyOf(lookup) = ""
                    THEN /\ db' = db
                         /\ ins_log'[1].ret = 0
                         /\ inserted_this_page' = inserted_this_page
                         /\ pc' = "records" /\ idx' = idx + 1
                         /\ outcome' = "running" /\ conn_open'
                    ELSE /\ KeyOf(lookup) \in IdsIn(db')
                         /\ IdsIn(db') \ IdsIn(db) \subseteq {KeyOf(lookup)}
                         /\ db \subseteq db']_vars

\* the lookup issued with the reference id b has returned a record of id a,
\* which was archived as a new row under a; no row has the key b
KeyFromDetailWitness ==
    /\ pc = "records"
    /\ idx > 1
    /\ ins_log # <<>>
    /\ NeoIdOf(objects[idx - 1]) = "b"
    /\ GetStr(ins_log[1].obj, "id") = "a"
    /\ ins_log[1].ret = 1
    /\ IdsIn(db) = {"a"}

\* a detail record with neither identifier has come back from a lookup into
\* a store with rows, and nothing was stored for it
KeylessDetailWitness ==
    /\ pc = "records"
    /\ ins_log # <<>>
    /\ KeyOf(ins_log[1].obj) = ""
    /\ ins_log[1].ret = 0
    /\ db # {}

\* the ends of run() the code closes the connection at
ClosingEnds == {"first_failed", "page_failed", "no_objects", "total_reached"}

\* C33 (Spec): the connection is opened by the step that starts a run and by
\* no other, and stays open as long as the run is at work; it is closed by
\* the step that ends the run and by no other, at each of the four ends: the
\* first fetch failed, a fetch of the loop failed, a page had no records, the
\* known total was reached; and a step that inserts, or changes the store,
\* has the connection open before and after it.
ConnectionLifecycle ==
    /\ [](pc # "idle" => conn_open)
    /\ []((pc = "idle" /\ outcome \in ClosingEnds) => ~conn_open)
    /\ [][/\ (pc = "idle" /\ pc' # "idle") => (conn_open' /\ pc' = "first" /\ runs' = runs + 1)
          /\ (~conn_open /\ conn_open') => (pc = "idle" /\ pc' = "first")
          /\ (conn_open /\ ~conn_open')
              => (pc # "idle" /\ pc' = "idle" /\ outcome' \in ClosingEnds)
          /\ (pc # "idle" /\ pc' = "idle" /\ outcome' \in ClosingEnds)
              => (conn_open /\ ~conn_open')
          /\ (pc = "first" /\ fstatus = "raised")
              => (pc' = "idle" /\ outcome' = "first_failed" /\ ~conn_open')
          /\ (pc = "browse" /\ fstatus = "raised")
              => (pc' = "idle" /\ outcome' = "page_failed" /\ ~conn_open')
          /\ (pc = "browse" /\ fstatus = "running" /\ pc' = "idle")
              => (outcome' = "no_objects" /\ ~conn_open')
          /\ (pc = "records" /\ idx > Len(objects) /\ total_pages # 0 /\ page >= total_pages)
              => (pc' = "idle" /\ outcome' = "total_reached" /\ ~conn_open')
          /\ (db' # db \/ ncalls' = ncalls + 1 \/ total_changes' > total_changes)
              => (conn_open /\ conn_open' /\ pc = "lookup")]_vars

\* the second run has archived a new row, reached its total and closed the
\* connection
ConnectionLifecycleWitness ==
    /\ pc = "idle"
    /\ outcome = "total_reached"
    /\ ~conn_open
    /\ runs = 2
    /\ db # db_at_start
    /\ db_at_start # {}

====
